---- MODULE Spec2Model ----
(***************************************************************************)
(* Factory Pocket Pro: the exchange-rate acquisition run (scraper.py) and  *)
(* the exchange-rate audit run (audit_rates.py), as state machines.        *)
(*                                                                         *)
(* Numbers.  The programs compute with Python floats (IEEE-754 binary64).  *)
(* The model names a float by the decimal it is nearest to, as a scaled    *)
(* integer:                                                                *)
(*   U6  a value times 10^6  (prices, 6-decimal rates, converted ECB rates)*)
(*   U4  a value times 10^4  (stored rates, raw ECB feed values)           *)
(*   C2  a value times 10^2  (the sanity bounds, written with <= 2 digits) *)
(*   P2  a percentage times 10^2 (deviations rounded to 2 decimals)        *)
(* and computes round(), the divisions and the threshold comparisons as    *)
(* the floats do: where the exact decimal result is a tie for round() or   *)
(* equals a threshold, the binary rounding errors decide the outcome (for  *)
(* instance |0.88-0.8|/0.8*100 is 9.999999999999995, not > 10, while       *)
(* |0.72-0.8|/0.8*100 is 10.000000000000009, > 10), and the model carries  *)
(* out the float operations on 53-bit significands to decide it alike.     *)
(***************************************************************************)
EXTENDS Integers, Sequences, FiniteSets, TLC

(* ------------------------------------------------------------------ *)
(* Program constants                                                   *)
(* ------------------------------------------------------------------ *)

\* audit_rates.py
MIN_RATES == 15
MAX_AGE_HOURS == 6
WARN_DEVIATION_PCT == 3
CRITICAL_DEVIATION_PCT == 10

\* scraper.py
MAX_RETRIES == 3
RETRY_DELAY == 2
\* scraper.py: "if deviation_pct > 2.0" and "if deviation_pct > 15"
FLAG_DEVIATION_PCT == 2
LOG_CRITICAL_DEVIATION_PCT == 15
\* scraper.py main: "if exchanger_audit['validated'] < 10"
MIN_VALIDATED == 10

\* scraper.py EXCHANGER_PAIRS, in dictionary order: code -> (ticker, invert)
EXCHANGER_PAIRS ==
  <<
      [code |-> "USD", ticker |-> "USD", invert |-> FALSE],
      [code |-> "EUR", ticker |-> "EURUSD=X", invert |-> TRUE],
      [code |-> "GBP", ticker |-> "GBPUSD=X", invert |-> TRUE],
      [code |-> "JPY", ticker |-> "USDJPY=X", invert |-> FALSE],
      [code |-> "CAD", ticker |-> "USDCAD=X", invert |-> FALSE],
      [code |-> "AUD", ticker |-> "AUDUSD=X", invert |-> TRUE],
      [code |-> "CNY", ticker |-> "USDCNY=X", invert |-> FALSE],
      [code |-> "CHF", ticker |-> "USDCHF=X", invert |-> FALSE],
      [code |-> "HKD", ticker |-> "USDHKD=X", invert |-> FALSE],
      [code |-> "SGD", ticker |-> "USDSGD=X", invert |-> FALSE],
      [code |-> "SEK", ticker |-> "USDSEK=X", invert |-> FALSE],
      [code |-> "KRW", ticker |-> "USDKRW=X", invert |-> FALSE],
      [code |-> "NOK", ticker |-> "USDNOK=X", invert |-> FALSE],
      [code |-> "NZD", ticker |-> "NZDUSD=X", invert |-> TRUE],
      [code |-> "INR", ticker |-> "USDINR=X", invert |-> FALSE],
      [code |-> "MXN", ticker |-> "USDMXN=X", invert |-> FALSE],
      [code |-> "TWD", ticker |-> "USDTWD=X", invert |-> FALSE],
      [code |-> "ZAR", ticker |-> "USDZAR=X", invert |-> FALSE],
      [code |-> "BRL", ticker |-> "USDBRL=X", invert |-> FALSE],
      [code |-> "DKK", ticker |-> "USDDKK=X", invert |-> FALSE],
      [code |-> "PLN", ticker |-> "USDPLN=X", invert |-> FALSE],
      [code |-> "THB", ticker |-> "USDTHB=X", invert |-> FALSE],
      [code |-> "IDR", ticker |-> "USDIDR=X", invert |-> FALSE],
      [code |-> "HUF", ticker |-> "USDHUF=X", invert |-> FALSE],
      [code |-> "CZK", ticker |-> "USDCZK=X", invert |-> FALSE],
      [code |-> "ILS", ticker |-> "USDILS=X", invert |-> FALSE],
      [code |-> "CLP", ticker |-> "USDCLP=X", invert |-> FALSE],
      [code |-> "PHP", ticker |-> "USDPHP=X", invert |-> FALSE],
      [code |-> "AED", ticker |-> "USDAED=X", invert |-> FALSE],
      [code |-> "COP", ticker |-> "USDCOP=X", invert |-> FALSE],
      [code |-> "SAR", ticker |-> "USDSAR=X", invert |-> FALSE],
      [code |-> "MYR", ticker |-> "USDMYR=X", invert |-> FALSE],
      [code |-> "RON", ticker |-> "USDRON=X", invert |-> FALSE],
      [code |-> "MAD", ticker |-> "USDMAD=X", invert |-> FALSE]
  >>

\* scraper.py TICKERS, in dictionary order: category -> symbol
TICKERS ==
  <<
      [category |-> "indices", symbol |-> "^GSPC"],
      [category |-> "indices", symbol |-> "^DJI"],
      [category |-> "indices", symbol |-> "^IXIC"],
      [category |-> "indices", symbol |-> "^STOXX50E"],
      [category |-> "indices", symbol |-> "^FTSE"],
      [category |-> "indices", symbol |-> "^N225"],
      [category |-> "currencies", symbol |-> "EURUSD=X"],
      [category |-> "currencies", symbol |-> "USDJPY=X"],
      [category |-> "currencies", symbol |-> "GBPUSD=X"],
      [category |-> "currencies", symbol |-> "USDCNY=X"],
      [category |-> "currencies", symbol |-> "DX-Y.NYB"],
      [category |-> "currencies", symbol |-> "USDMAD=X"],
      [category |-> "currencies", symbol |-> "EURMAD=X"],
      [category |-> "currencies", symbol |-> "GBPMAD=X"],
      [category |-> "energy", symbol |-> "BZ=F"],
      [category |-> "energy", symbol |-> "CL=F"],
      [category |-> "energy", symbol |-> "NG=F"],
      [category |-> "energy", symbol |-> "HO=F"],
      [category |-> "energy", symbol |-> "RB=F"],
      [category |-> "metals", symbol |-> "GC=F"],
      [category |-> "metals", symbol |-> "SI=F"],
      [category |-> "metals", symbol |-> "HG=F"],
      [category |-> "metals", symbol |-> "ALI=F"],
      [category |-> "metals", symbol |-> "PL=F"],
      [category |-> "metals", symbol |-> "PA=F"],
      [category |-> "agriculture", symbol |-> "SB=F"],
      [category |-> "agriculture", symbol |-> "KC=F"],
      [category |-> "agriculture", symbol |-> "CT=F"],
      [category |-> "agriculture", symbol |-> "ZW=F"],
      [category |-> "agriculture", symbol |-> "ZC=F"],
      [category |-> "agriculture", symbol |-> "ZS=F"]
  >>

\* scraper.py RATE_BOUNDS in C2 units: code -> <<low, high>>
RATE_BOUNDS ==
  [
      EUR |-> <<50, 150>>, GBP |-> <<40, 130>>, JPY |-> <<7000, 25000>>,
      CAD |-> <<90, 200>>, AUD |-> <<90, 220>>, CNY |-> <<400, 1000>>,
      CHF |-> <<50, 150>>, HKD |-> <<500, 1000>>, SGD |-> <<80, 200>>,
      SEK |-> <<500, 1600>>, KRW |-> <<70000, 200000>>, NOK |-> <<500, 1600>>,
      NZD |-> <<90, 250>>, INR |-> <<5000, 13000>>, MXN |-> <<1000, 3000>>,
      TWD |-> <<2000, 4500>>, ZAR |-> <<1000, 3000>>, BRL |-> <<300, 800>>,
      DKK |-> <<400, 1000>>, PLN |-> <<250, 600>>, THB |-> <<2000, 5000>>,
      IDR |-> <<1000000, 2200000>>, HUF |-> <<20000, 55000>>, CZK |-> <<1500, 3500>>,
      ILS |-> <<250, 550>>, CLP |-> <<50000, 140000>>, PHP |-> <<3500, 7500>>,
      AED |-> <<300, 450>>, COP |-> <<250000, 600000>>, SAR |-> <<300, 450>>,
      MYR |-> <<300, 700>>, RON |-> <<300, 700>>, MAD |-> <<700, 1400>>
  ]

\* audit_rates.py RATE_BOUNDS in C2 units (a second copy of the table)
AUDIT_RATE_BOUNDS ==
  [
      EUR |-> <<50, 150>>, GBP |-> <<40, 130>>, JPY |-> <<7000, 25000>>,
      CAD |-> <<90, 200>>, AUD |-> <<90, 220>>, CNY |-> <<400, 1000>>,
      CHF |-> <<50, 150>>, HKD |-> <<500, 1000>>, SGD |-> <<80, 200>>,
      SEK |-> <<500, 1600>>, KRW |-> <<70000, 200000>>, NOK |-> <<500, 1600>>,
      NZD |-> <<90, 250>>, INR |-> <<5000, 13000>>, MXN |-> <<1000, 3000>>,
      TWD |-> <<2000, 4500>>, ZAR |-> <<1000, 3000>>, BRL |-> <<300, 800>>,
      DKK |-> <<400, 1000>>, PLN |-> <<250, 600>>, THB |-> <<2000, 5000>>,
      IDR |-> <<1000000, 2200000>>, HUF |-> <<20000, 55000>>, CZK |-> <<1500, 3500>>,
      ILS |-> <<250, 550>>, CLP |-> <<50000, 140000>>, PHP |-> <<3500, 7500>>,
      AED |-> <<300, 450>>, COP |-> <<250000, 600000>>, SAR |-> <<300, 450>>,
      MYR |-> <<300, 700>>, RON |-> <<300, 700>>, MAD |-> <<700, 1400>>
  ]

\* audit_rates.py REQUIRED_CURRENCIES
REQUIRED_CURRENCIES == {"EUR", "GBP", "JPY", "CNY", "CHF", "CAD", "MAD"}

(* ------------------------------------------------------------------ *)
(* Bounds of the model                                                 *)
(* ------------------------------------------------------------------ *)

\* The first NumVaried non-base entries of EXCHANGER_PAIRS receive every
\* provider outcome; the entries after them follow the provider scenario.
NumVaried == 3

(* ------------------------------------------------------------------ *)
(* Arithmetic                                                          *)
(* ------------------------------------------------------------------ *)

Abs(x) == IF x < 0 THEN -x ELSE x

\* the element of a one-element set: Only({f(v) : v \in {e}}) is f(e), with
\* e computed once, before f
Only(S) == CHOOSE v \in S : TRUE

\* <<quotient, remainder>> of (q + rem/d) * 10^k by long division
RECURSIVE LongDiv(_, _, _, _)
LongDiv(q, rem, d, k) ==
  IF k = 0 THEN <<q, rem>>
  ELSE LongDiv(q * 10 + (rem * 10) \div d, (rem * 10) % d, d, k - 1)

(* Natural numbers of any size: little-endian sequences of 15-bit limbs    *)
(* with no leading zero limb (<<>> is 0).  They carry the 53-bit           *)
(* significands of the doubles and the wider intermediate values.          *)

Limb(a, i) == IF 1 <= i /\ i <= Len(a) THEN a[i] ELSE 0

\* a without its leading zero limbs
BigNorm(a) ==
  LET nz == {i \in DOMAIN a : a[i] # 0}
  IN  IF nz = {} THEN <<>>
      ELSE SubSeq(a, 1, CHOOSE i \in nz : \A j \in nz : j <= i)

\* for 0 <= n < 2^31
BigFromInt(n) == BigNorm(<<n % 32768, (n \div 32768) % 32768, n \div (32768 * 32768)>>)

\* for a < 2^31
BigToInt(a) == Limb(a, 1) + 32768 * Limb(a, 2) + 32768 * 32768 * Limb(a, 3)

\* -1, 0 or 1 as a < b, a = b or a > b
BigCmp(a, b) ==
  LET diff == {i \in DOMAIN a \cup DOMAIN b : Limb(a, i) # Limb(b, i)}
  IN  IF diff = {} THEN 0
      ELSE LET top == CHOOSE i \in diff : \A j \in diff : j <= i
           IN  IF Limb(a, top) > Limb(b, top) THEN 1 ELSE -1

\* a - b for a >= b: limb i borrows when the limbs of a below i are less
\* than those of b
BigSub(a, b) ==
  LET borrow(i) == \E j \in 1 .. (i - 1) :
                     /\ a[j] < Limb(b, j)
                     /\ \A l \in (j + 1) .. (i - 1) : a[l] = Limb(b, l)
  IN  BigNorm([i \in DOMAIN a |->
                 (a[i] - Limb(b, i) - (IF borrow(i) THEN 1 ELSE 0) + 32768) % 32768])

\* a + 1
BigInc(a) ==
  LET low == {i \in DOMAIN a : a[i] # 32767}
  IN  IF low = {} THEN [i \in 1 .. (Len(a) + 1) |-> IF i <= Len(a) THEN 0 ELSE 1]
      ELSE LET first == CHOOSE i \in low : \A j \in low : i <= j
           IN  [i \in DOMAIN a |->
                  IF i < first THEN 0 ELSE IF i = first THEN a[i] + 1 ELSE a[i]]

\* a * c + carry from limb i on, for 0 < c < 65536
RECURSIVE BigMulFrom(_, _, _, _)
BigMulFrom(a, c, i, carry) ==
  IF i > Len(a) THEN BigFromInt(carry)
  ELSE LET p == a[i] * c + carry
       IN  <<p % 32768>> \o BigMulFrom(a, c, i + 1, p \div 32768)

\* a * c + d for 0 < c < 65536 and 0 <= d < 32768
BigMulAdd(a, c, d) == BigMulFrom(a, c, 1, d)

\* a * c for 0 <= c < 65536
BigMulSmall(a, c) == IF c = 0 THEN <<>> ELSE BigMulFrom(a, c, 1, 0)

\* [q, r]: the quotient limbs i .. 1 of a by c, highest first, and the
\* remainder, for 0 < c <= 32768
RECURSIVE BigDivFrom(_, _, _, _)
BigDivFrom(a, c, i, rem) ==
  IF i = 0 THEN [q |-> <<>>, r |-> rem]
  ELSE LET cur == rem * 32768 + a[i]
           top == <<cur \div c>>
           low == BigDivFrom(a, c, i - 1, cur % c)
       IN  [q |-> top \o low.q, r |-> low.r]

\* [q, r]: quotient and remainder of a by c, for 0 < c <= 32768
BigDivSmall(a, c) ==
  LET qr == BigDivFrom(a, c, Len(a), 0)
  IN  [q |-> BigNorm([i \in DOMAIN a |-> qr.q[Len(a) + 1 - i]]), r |-> qr.r]

\* a * 2^k
BigShl(a, k) ==
  LET t == k % 15
  IN  IF a = <<>> THEN a
      ELSE [i \in 1 .. (k \div 15) |-> 0]
             \o BigNorm([i \in 1 .. (Len(a) + 1) |->
                           ((Limb(a, i) * 2 ^ t) % 32768) + (Limb(a, i - 1) \div 2 ^ (15 - t))])

\* floor(a / 2^k)
BigShr(a, k) ==
  LET t == k % 15
      s == k \div 15
  IN  BigNorm([i \in 1 .. (Len(a) - s) |->
                 (Limb(a, i + s) \div 2 ^ t) + (Limb(a, i + s + 1) % 2 ^ t) * 2 ^ (15 - t)])

\* the number of bits of a limb
IntBitLen(n) == Cardinality({i \in 0 .. 14 : 2 ^ i <= n})

BigBitLen(a) == IF a = <<>> THEN 0 ELSE 15 * (Len(a) - 1) + IntBitLen(a[Len(a)])

\* bit i of a, bit 0 the lowest
BigBit(a, i) == (Limb(a, i \div 15 + 1) \div (2 ^ (i % 15))) % 2

\* some bit of a below bit i is set
BigLowBits(a, i) == \E j \in 0 .. (i - 1) : BigBit(a, j) = 1

\* the estimate qhat with p = qhat * b, stepped down while p > cur
RECURSIVE BigDivCorrect(_, _, _, _)
BigDivCorrect(cur, b, qhat, p) ==
  IF BigCmp(p, cur) <= 0 THEN [q |-> qhat, r |-> BigSub(cur, p)]
  ELSE BigDivCorrect(cur, b, qhat - 1, BigSub(p, b))

BigDivEstimate(cur, b, qhat) == BigDivCorrect(cur, b, qhat, BigMulSmall(b, qhat))

\* [q, r]: the quotient limb and the remainder of cur by b, for b of 4 limbs
\* with b[4] >= 16384 and cur < 32768 * b.  The estimate from the leading
\* limbs is the quotient limb, or 1 or 2 more (Knuth, TAOCP 4.3.1).
BigDivLimb(cur, b) ==
  LET est == (Limb(cur, 5) * 32768 + Limb(cur, 4)) \div b[4]
  IN  BigDivEstimate(cur, b, IF est > 32767 THEN 32767 ELSE est)

\* a * 32768
BigUp(a) == IF a = <<>> THEN a ELSE <<0>> \o a

\* [q, r]: n more quotient limbs, of r * 32768^n by b, below the limbs q,
\* and whether the division left a remainder
RECURSIVE BigDivLimbs(_, _, _, _)
BigDivNext(s, b, n, q) == BigDivLimbs(s.r, b, n - 1, <<s.q>> \o q)

BigDivLimbs(r, b, n, q) ==
  IF r = <<>> THEN [q |-> [i \in 1 .. n |-> 0] \o q, r |-> FALSE]
  ELSE IF n = 0 THEN [q |-> q, r |-> TRUE]
  ELSE BigDivNext(BigDivLimb(BigUp(r), b), b, n, q)

\* [q, r]: floor(a * 2^60 / b) and whether the division left a remainder,
\* for a and b of exactly 60 bits
BigDiv60(a, b) ==
  IF BigCmp(a, b) >= 0 THEN BigDivLimbs(BigSub(a, b), b, 4, <<1>>)
  ELSE BigDivLimbs(a, b, 4, <<>>)

\* a * 10^k for 0 <= k <= 7
BigMulPow10(a, k) ==
  IF k = 0 THEN a
  ELSE IF k <= 4 THEN BigMulSmall(a, 10 ^ k)
  ELSE BigMulSmall(BigMulSmall(a, 10000), 10 ^ (k - 4))

\* the quotient of d, and whether d or an earlier division left a remainder
BigDivFlag(d, left) == [q |-> d.q, r |-> left \/ d.r # 0]

\* the quotient d.q divided by c once more
BigDivAgain(d, c) == BigDivFlag(BigDivSmall(d.q, c), d.r # 0)

\* [q, r]: floor(a / 10^k) and whether the division left a remainder, for
\* 0 <= k <= 7
BigDivPow10(a, k) ==
  IF k = 0 THEN [q |-> a, r |-> FALSE]
  ELSE IF k <= 4 THEN BigDivFlag(BigDivSmall(a, 10 ^ k), FALSE)
  ELSE BigDivAgain(BigDivSmall(a, 10000), 10 ^ (k - 4))

(* IEEE-754 binary64 values >= 0, the Python float: [m, e] is m * 2^e with *)
(* m a natural number of at most 53 bits (2^53 itself is allowed).  Every  *)
(* operation rounds its exact result to nearest, ties to even, as the      *)
(* hardware does.  Values stay far from the subnormal and overflow ranges. *)

\* q * 2^e plus a discarded part below the last bit of q: half says that its
\* top bit is set, low that something below its top bit is; to nearest, a tie
\* to the even neighbour
DblRoundUp(q, e, half, low) ==
  [m |-> IF half /\ (low \/ BigBit(q, 0) = 1) THEN BigInc(q) ELSE q, e |-> e]

\* M * 2^e with its sh lowest bits rounded away
DblRoundShift(M, e, sticky, sh) ==
  DblRoundUp(BigShr(M, sh), e + sh, BigBit(M, sh - 1) = 1, BigLowBits(M, sh - 1) \/ sticky)

\* M * 2^e (plus a nonzero amount below the last bit of M when sticky),
\* rounded to a 53-bit significand
DblRound(M, e, sticky) ==
  IF BigBitLen(M) <= 53 THEN [m |-> M, e |-> e]
  ELSE DblRoundShift(M, e, sticky, BigBitLen(M) - 53)

\* the quotient qr.q * 2^e of a division, qr.r saying that it left a remainder
DblRoundDiv(qr, e) == DblRound(qr.q, e, qr.r)

\* the double nearest to N / 10^k for a natural number N, 0 <= k <= 7
DblFromBig(N, k) == DblRoundDiv(BigDivPow10(BigShl(N, 80), k), -80)

\* the double nearest to n / 10^k: float("...") of a decimal literal, a
\* number read from JSON, and what round() returns (0 <= n < 2^31)
DblFromDecimal(n, k) == DblFromBig(BigFromInt(n), k)

\* x / y for y > 0: the significands are aligned to 60 bits and divided
DblDivAligned(x, y, nx, ny) ==
  DblRoundDiv(BigDiv60(BigShl(x.m, 60 - nx), BigShl(y.m, 60 - ny)),
              x.e - y.e + nx - ny - 60)

DblDiv(x, y) ==
  IF x.m = <<>> THEN x ELSE DblDivAligned(x, y, BigBitLen(x.m), BigBitLen(y.m))

\* abs(x - y)
DblAbsDiff(X, Y, e) ==
  DblRound(IF BigCmp(X, Y) >= 0 THEN BigSub(X, Y) ELSE BigSub(Y, X), e, FALSE)

DblAbsSub(x, y) ==
  LET e == IF x.e < y.e THEN x.e ELSE y.e
  IN  DblAbsDiff(BigShl(x.m, x.e - e), BigShl(y.m, y.e - e), e)

\* x * c for an integer 0 < c < 65536
DblMulInt(x, c) == IF x.m = <<>> THEN x ELSE DblRound(BigMulSmall(x.m, c), x.e, FALSE)

\* x > c for an integer c >= 0
DblGtInt(x, c) ==
  IF x.e >= 0 THEN BigCmp(BigShl(x.m, x.e), BigFromInt(c)) > 0
  ELSE BigCmp(x.m, BigShl(BigFromInt(c), 0 - x.e)) > 0

\* round(x, k) in units of 10^-k: Python rounds the exact binary value of x
\* to k decimals, ties to even
DblRoundDecimal(x, k) ==
  IF x.e >= 0 THEN BigToInt(BigShl(BigMulPow10(x.m, k), x.e))
  ELSE BigToInt(DblRoundShift(BigMulPow10(x.m, k), x.e, FALSE, 0 - x.e).m)

\* abs(a - b) / b * 100 as the programs compute it
DblDeviation(a, b) ==
  Only({ Only({ DblMulInt(q, 100) : q \in {DblDiv(d, b)} }) : d \in {DblAbsSub(a, b)} })

\* DblDeviation of the doubles nearest to na / 10^ka and nb / 10^kb
Deviation(na, ka, nb, kb) ==
  Only({ DblDeviation(a, b) : a \in {DblFromDecimal(na, ka)}, b \in {DblFromDecimal(nb, kb)} })

\* DblDiv of the doubles nearest to na / 10^ka and nb / 10^kb
Quotient(na, ka, nb, kb) ==
  Only({ DblDiv(a, b) : a \in {DblFromDecimal(na, ka)}, b \in {DblFromDecimal(nb, kb)} })

(* The programs' float expressions on scaled integers.  Away from a        *)
(* decimal tie the rounding errors of the float operations (a few units of *)
(* 2^-53, relative) are far smaller than the distance of the exact value   *)
(* to the tie, so the exact integer result is the float result; on a tie,  *)
(* and for operands too large for that argument or for 32-bit products,    *)
(* the float operations are carried out one by one.                        *)

\* round(x, 4) of the 6-decimal double x = v6 / 10^6, in U4
Round4(v6) ==
  IF v6 % 100 # 50 THEN (v6 + 50) \div 100
  ELSE DblRoundDecimal(DblFromDecimal(v6, 6), 4)

\* |scraped - ecb| of a stored rate (U4) and a converted ECB rate (U6), in U6
AbsDiff(rate4, ecb6) == Abs(rate4 * 100 - ecb6)

\* abs(rate - ecb_rate) / ecb_rate * 100 > pct for ecb6 > 0 and an integer
\* pct; exactly, d * 100 against pct * ecb6
DeviationExceeds(rate4, ecb6, pct) ==
  LET d  == AbsDiff(rate4, ecb6)
      t  == pct * (ecb6 \div 100) + (pct * (ecb6 % 100)) \div 100
      eq == d = t /\ (pct * (ecb6 % 100)) % 100 = 0
  IN  IF rate4 < 20000000 /\ ~eq THEN d > t
      ELSE DblGtInt(Deviation(rate4, 4, ecb6, 6), pct)

\* round(abs(a - b) / b * 100, 2) in P2, for the doubles a = na / 10^ka and
\* b = b6 / 10^6 > 0 whose exact difference is d / 10^6
Pct2(d, na, ka, b6) ==
  IF d \div b6 < 100 /\ b6 < 200000000
     /\ 2 * LongDiv(d \div b6, d % b6, b6, 4)[2] # b6
  THEN LET qr == LongDiv(d \div b6, d % b6, b6, 4)
       IN  IF 2 * qr[2] > b6 THEN qr[1] + 1 ELSE qr[1]
  ELSE DblRoundDecimal(Deviation(na, ka, b6, 6), 2)

\* round(abs(rate - ecb_rate) / ecb_rate * 100, 2) in P2
DeviationPct2(rate4, ecb6) ==
  IF rate4 < 20000000 THEN Pct2(AbsDiff(rate4, ecb6), rate4, 4, ecb6)
  ELSE DblRoundDecimal(Deviation(rate4, 4, ecb6, 6), 2)

\* round(val / eur_usd, 6) in U6, for the feed values val and eur_usd in U4
usd_rate(val, eur_usd) ==
  IF val < 1000000000 /\ eur_usd < 200000000
     /\ 2 * LongDiv(val \div eur_usd, val % eur_usd, eur_usd, 6)[2] # eur_usd
  THEN LET qr == LongDiv(val \div eur_usd, val % eur_usd, eur_usd, 6)
       IN  IF 2 * qr[2] > eur_usd THEN qr[1] + 1 ELSE qr[1]
  ELSE DblRoundDecimal(Quotient(val, 4, eur_usd, 4), 6)

\* the empty dictionary
EmptyMap == [c \in {} |-> 0]

\* dict.get(key, default)
Get(map, key, default) == IF key \in DOMAIN map THEN map[key] ELSE default

(* ------------------------------------------------------------------ *)
(* State                                                               *)
(* ------------------------------------------------------------------ *)

VARIABLES
  disk,              \* market_data.json: [state, doc]
  report_file,       \* audit_report.json: <<>> or <<report>>
  \* acquisition run (scraper.py)
  scenario,          \* provider scenario: [outage, items]
  total,             \* main: number of items of the non-FX sections
  spc,               \* position of the acquisition run
  idx,               \* index into EXCHANGER_PAIRS of the currency being fetched
  attempt,           \* attempt number of the retry loop
  delay,             \* current backoff delay (seconds)
  price,             \* <<>> (None) or <<p>>, p in U6
  result,            \* build_section: <<>> (None) or <<[price, trend]>> of fetch_with_retry
  items,             \* build_section: the items of the section being built
  events,            \* the downloads and sleeps of the current symbol, in order
  rates,             \* rates dict: code -> U4
  audit,             \* audit dict of fetch_exchanger_rates
  s_feed,            \* <<>> or <<response>> of the acquisition-time ECB fetch
  critical_log,      \* codes for which the CRITICAL deviation line was printed
  s_exit,            \* exit status of the acquisition process: -1 while running
  \* audit run (audit_rates.py)
  apc,               \* position of the audit run
  data,              \* the loaded dataset
  report,            \* the report under construction
  critical,          \* run_audit local
  warnings,          \* run_audit local
  now,               \* run_audit local: datetime.now() of check 2 (minutes), 0 before
  bounds_violations, \* run_audit local: codes out of bounds
  a_feed,            \* <<>> or <<response>> of the audit-time ECB fetch
  ecb_fetches,       \* number of calls of fetch_ecb_rates
  a_exit             \* exit status of the audit process: -1 while running

scraper_vars == <<scenario, total, spc, idx, attempt, delay, price, result, items, events,
                  rates, audit, s_feed, critical_log, s_exit>>
audit_vars == <<report_file, apc, data, report, critical, warnings, now,
                bounds_violations, a_feed, ecb_fetches, a_exit>>
scraper_vars_but_spc == <<scenario, total, idx, attempt, delay, price, result, items, events,
                          rates, audit, s_feed, critical_log, s_exit>>
vars == <<disk, scraper_vars, audit_vars>>

(* ------------------------------------------------------------------ *)
(* The persisted dataset and the reference feed                        *)
(* ------------------------------------------------------------------ *)

\* A last_update string: "garbage" is no ISO-8601 date, "aware" carries a UTC
\* offset, "naive" carries none; t is the instant in minutes.
NoDoc == [last_update |-> [kind |-> "garbage", t |-> 0], rates |-> EmptyMap,
          exchanger_audit |-> <<>>]
MissingFile == [state |-> "missing", doc |-> NoDoc]
PartialFile == [state |-> "partial", doc |-> NoDoc]
CompleteFile(doc) == [state |-> "complete", doc |-> doc]

\* Responses of the ECB endpoint: unreachable, or the EUR-based rates (U4) of
\* the Cube elements.
Unreachable == [ok |-> FALSE, cubes |-> EmptyMap]
FeedSpace ==
  { Unreachable,
    [ok |-> TRUE, cubes |-> [JPY |-> 1250000]],
    [ok |-> TRUE, cubes |-> [USD |-> 0, JPY |-> 1250000]],
    [ok |-> TRUE, cubes |-> [USD |-> 12500, JPY |-> 1250000]],
    [ok |-> TRUE, cubes |-> [USD |-> 12500, JPY |-> 1250000, GBP |-> 0]],
    [ok |-> TRUE, cubes |-> [USD |-> 10870, JPY |-> 1087000]],
    [ok |-> TRUE, cubes |-> [USD |-> 10870, JPY |-> 1087000, GBP |-> 9131]],
    [ok |-> TRUE, cubes |-> [USD |-> 10870, JPY |-> 1087000, GBP |-> 8696]] }

(* ------------------------------------------------------------------ *)
(* audit_rates.py                                                      *)
(* ------------------------------------------------------------------ *)

\* load_market_data: <<>> for None, "error" when json.load raises
load_market_data(file) ==
  IF file.state = "missing" THEN [raised |-> FALSE, value |-> <<>>]
  ELSE IF file.state = "partial" THEN [raised |-> TRUE, value |-> <<>>]
  ELSE [raised |-> FALSE, value |-> <<file.doc>>]

\* parse_last_update: <<>> for None, else the instant and whether tzinfo is set
parse_last_update(date_str) ==
  IF date_str.kind = "aware" THEN <<[t |-> date_str.t, tzinfo |-> TRUE]>>
  ELSE IF date_str.kind = "naive" THEN <<[t |-> date_str.t, tzinfo |-> FALSE]>>
  ELSE <<>>

\* fetch_ecb_rates: the USD-based rates (U6), or {} on any failure
fetch_ecb_rates(resp) ==
  IF ~resp.ok THEN EmptyMap
  ELSE
    LET eur_rates == resp.cubes @@ [EUR |-> 10000]
        eur_usd == Get(eur_rates, "USD", 0)
    IN  IF eur_usd <= 0 THEN EmptyMap
        ELSE [code \in DOMAIN eur_rates |->
                IF code = "USD" THEN 1000000
                ELSE usd_rate(eur_rates[code], eur_usd)]

\* run_audit.add_check on the triple of report, critical, warnings
add_check(st, name, status) ==
  [report   |-> [st.report EXCEPT !.checks = Append(@, [check |-> name, status |-> status])],
   critical |-> (st.critical \/ status = "CRITICAL"),
   warnings |-> IF status = "WARNING" THEN st.warnings + 1 ELSE st.warnings]

Cur == [report |-> report, critical |-> critical, warnings |-> warnings]

Commit(st) ==
  /\ report' = st.report
  /\ critical' = st.critical
  /\ warnings' = st.warnings

\* the report with status CRITICAL, as returned by the two early returns
ReturnCritical(st) == [st EXCEPT !.report.status = "CRITICAL"]

NewReport == [status |-> "PASS", checks |-> <<>>, summary |-> EmptyMap,
              details_per_currency |-> EmptyMap]

\* AuditFileExists without the early return: the run goes on after the
\* CRITICAL file_exists check
AuditFileExists_NoReturn ==
  /\ apc = "start"
  /\ LET loaded == load_market_data(disk)
     IN  IF loaded.raised
         THEN /\ apc' = "crashed"
              /\ a_exit' = 1
              /\ UNCHANGED <<data, report, critical, warnings>>
         ELSE IF loaded.value = <<>>
         THEN /\ Commit(add_check(Cur, "file_exists", "CRITICAL"))
              /\ apc' = "freshness"
              /\ UNCHANGED <<data, a_exit>>
         ELSE /\ data' = loaded.value[1]
              /\ Commit(add_check(Cur, "file_exists", "PASS"))
              /\ apc' = "freshness"
              /\ UNCHANGED a_exit
  /\ UNCHANGED <<disk, scraper_vars, report_file, now, bounds_violations, a_feed, ecb_fetches>>

\* 1. File existence
AuditFileExists ==
  /\ apc = "start"
  /\ LET loaded == load_market_data(disk)
     IN  IF loaded.raised
         THEN /\ apc' = "crashed"
              /\ a_exit' = 1
              /\ UNCHANGED <<data, report, critical, warnings>>
         ELSE IF loaded.value = <<>>
         THEN /\ Commit(ReturnCritical(add_check(Cur, "file_exists", "CRITICAL")))
              /\ apc' = "returned"
              /\ UNCHANGED <<data, a_exit>>
         ELSE /\ data' = loaded.value[1]
              /\ Commit(add_check(Cur, "file_exists", "PASS"))
              /\ apc' = "freshness"
              /\ UNCHANGED a_exit
  /\ UNCHANGED <<disk, scraper_vars, report_file, now, bounds_violations, a_feed, ecb_fetches>>

\* the instants datetime.now() can return in the audit run (minutes)
AuditNows == {1060, 1480}

\* FreshnessStatus failing the gate on a stale dataset
FreshnessStatus_StaleCritical(date_str, t) ==
  LET last_update == parse_last_update(date_str)
  IN  IF last_update = <<>> THEN "CRITICAL"
      ELSE IF t - last_update[1].t > MAX_AGE_HOURS * 60 THEN "CRITICAL"
      ELSE "PASS"

\* the status of the freshness check at instant t
FreshnessStatus(date_str, t) ==
  LET last_update == parse_last_update(date_str)
  IN  IF last_update = <<>> THEN "CRITICAL"
      ELSE IF t - last_update[1].t > MAX_AGE_HOURS * 60 THEN "WARNING"
      ELSE "PASS"

\* 2. Freshness (now is assigned only when last_update parses)
AuditFreshness ==
  /\ apc = "freshness"
  /\ \E t \in AuditNows :
       /\ Commit(add_check(Cur, "freshness", FreshnessStatus(data.last_update, t)))
       /\ now' = IF parse_last_update(data.last_update) = <<>> THEN now ELSE t
  /\ apc' = "rates_present"
  /\ UNCHANGED <<disk, scraper_vars, report_file, data, bounds_violations, a_feed,
                 ecb_fetches, a_exit>>

\* AuditRatesPresent without the early return
AuditRatesPresent_NoReturn ==
  /\ apc = "rates_present"
  /\ Commit(add_check(Cur, "rates_present",
                      IF DOMAIN data.rates = {} THEN "CRITICAL" ELSE "PASS"))
  /\ apc' = "minimum_count"
  /\ UNCHANGED <<disk, scraper_vars, report_file, data, now, bounds_violations, a_feed,
                 ecb_fetches, a_exit>>

\* 3. Rates presence
AuditRatesPresent ==
  /\ apc = "rates_present"
  /\ IF DOMAIN data.rates = {}
     THEN /\ Commit(ReturnCritical(add_check(Cur, "rates_present", "CRITICAL")))
          /\ apc' = "returned"
     ELSE /\ Commit(add_check(Cur, "rates_present", "PASS"))
          /\ apc' = "minimum_count"
  /\ UNCHANGED <<disk, scraper_vars, report_file, data, now, bounds_violations, a_feed,
                 ecb_fetches, a_exit>>

\* 4. Minimum count
AuditMinimumCount ==
  /\ apc = "minimum_count"
  /\ Commit(add_check(Cur, "minimum_count",
                      IF Cardinality(DOMAIN data.rates) < MIN_RATES
                      THEN "CRITICAL" ELSE "PASS"))
  /\ apc' = "usd_base"
  /\ UNCHANGED <<disk, scraper_vars, report_file, data, now, bounds_violations, a_feed,
                 ecb_fetches, a_exit>>

\* AuditUsdBase returning early on a wrong base value
AuditUsdBase_ReturnsOnCritical ==
  /\ apc = "usd_base"
  /\ IF "USD" \in DOMAIN data.rates /\ data.rates["USD"] = 10000
     THEN /\ Commit(add_check(Cur, "usd_base", "PASS"))
          /\ apc' = "required_currencies"
     ELSE /\ Commit(ReturnCritical(add_check(Cur, "usd_base", "CRITICAL")))
          /\ apc' = "returned"
  /\ UNCHANGED <<disk, scraper_vars, report_file, data, now, bounds_violations, a_feed,
                 ecb_fetches, a_exit>>

\* 5. USD base = 1.0 (rates.get("USD") is None when absent; a rate is U4)
AuditUsdBase ==
  /\ apc = "usd_base"
  /\ Commit(add_check(Cur, "usd_base",
                      IF "USD" \in DOMAIN data.rates /\ data.rates["USD"] = 10000
                      THEN "PASS" ELSE "CRITICAL"))
  /\ apc' = "required_currencies"
  /\ UNCHANGED <<disk, scraper_vars, report_file, data, now, bounds_violations, a_feed,
                 ecb_fetches, a_exit>>

\* AuditRequiredCurrencies collecting the currencies present as missing
AuditRequiredCurrencies_InvertedTest ==
  /\ apc = "required_currencies"
  /\ LET missing == REQUIRED_CURRENCIES \cap DOMAIN data.rates
     IN  Commit(add_check(Cur, "required_currencies",
                          IF missing # {} THEN "WARNING" ELSE "PASS"))
  /\ apc' = "bounds_validation"
  /\ UNCHANGED <<disk, scraper_vars, report_file, data, now, bounds_violations, a_feed,
                 ecb_fetches, a_exit>>

\* 6. Required currencies
AuditRequiredCurrencies ==
  /\ apc = "required_currencies"
  /\ LET missing == REQUIRED_CURRENCIES \ DOMAIN data.rates
     IN  Commit(add_check(Cur, "required_currencies",
                          IF missing # {} THEN "WARNING" ELSE "PASS"))
  /\ apc' = "bounds_validation"
  /\ UNCHANGED <<disk, scraper_vars, report_file, data, now, bounds_violations, a_feed,
                 ecb_fetches, a_exit>>

\* WithinAuditBounds with exclusive comparisons
WithinAuditBounds_Exclusive(code, rate) ==
  /\ AUDIT_RATE_BOUNDS[code][1] * 100 < rate
  /\ rate < AUDIT_RATE_BOUNDS[code][2] * 100

\* lo <= rate <= hi for a stored rate (U4) and bounds in C2
WithinAuditBounds(code, rate) ==
  /\ AUDIT_RATE_BOUNDS[code][1] * 100 <= rate
  /\ rate <= AUDIT_RATE_BOUNDS[code][2] * 100

\* the entry of details_per_currency written by check 7
BoundsDetail(code, rate) ==
  IF code \in DOMAIN AUDIT_RATE_BOUNDS
  THEN IF ~WithinAuditBounds(code, rate)
       THEN [rate |-> rate, bounds_status |-> "FAIL", bounds |-> AUDIT_RATE_BOUNDS[code]]
       ELSE [rate |-> rate, bounds_status |-> "PASS"]
  ELSE [rate |-> rate, bounds_status |-> "NO_BOUNDS"]

\* 7. Bounds check per currency
AuditBoundsValidation ==
  /\ apc = "bounds_validation"
  /\ LET codes == DOMAIN data.rates \ {"USD"}
         details == [code \in codes |-> BoundsDetail(code, data.rates[code])]
         violations == {code \in codes : details[code].bounds_status = "FAIL"}
         st == add_check(Cur, "bounds_validation",
                         IF violations # {} THEN "WARNING" ELSE "PASS")
     IN  /\ bounds_violations' = violations
         /\ Commit([st EXCEPT !.report.details_per_currency = details])
  /\ apc' = "ecb_cross_check"
  /\ UNCHANGED <<disk, scraper_vars, report_file, data, now, a_feed, ecb_fetches, a_exit>>

\* the details_per_currency entry after check 8 recorded the ECB comparison
CrossDetail(entry, rate, ecb_rate) ==
  [ecb_rate |-> Round4(ecb_rate), ecb_deviation_pct |-> DeviationPct2(rate, ecb_rate)]
    @@ entry

\* the codes check 8 compares: in rates, not USD, with a positive ECB rate
CrossChecked(rts, ecb_rates) ==
  {code \in DOMAIN rts \ {"USD"} : Get(ecb_rates, code, 0) > 0}

cross_errors(rts, ecb_rates) ==
  {code \in CrossChecked(rts, ecb_rates) :
     DeviationExceeds(rts[code], ecb_rates[code], CRITICAL_DEVIATION_PCT)}

cross_warnings(rts, ecb_rates) ==
  {code \in CrossChecked(rts, ecb_rates) :
     /\ ~DeviationExceeds(rts[code], ecb_rates[code], CRITICAL_DEVIATION_PCT)
     /\ DeviationExceeds(rts[code], ecb_rates[code], WARN_DEVIATION_PCT)}

\* CrossCheckStatus failing the gate when the ECB data is unavailable
CrossCheckStatus_UnavailableCritical(rts, ecb_rates) ==
  IF DOMAIN ecb_rates = {} THEN "CRITICAL"
  ELSE IF cross_errors(rts, ecb_rates) # {} THEN "CRITICAL"
  ELSE IF cross_warnings(rts, ecb_rates) # {} THEN "WARNING"
  ELSE "PASS"

\* the status of ecb_cross_check
CrossCheckStatus(rts, ecb_rates) ==
  IF DOMAIN ecb_rates = {} THEN "WARNING"
  ELSE IF cross_errors(rts, ecb_rates) # {} THEN "CRITICAL"
  ELSE IF cross_warnings(rts, ecb_rates) # {} THEN "WARNING"
  ELSE "PASS"

\* 8. ECB cross-validation
AuditEcbCrossCheck ==
  /\ apc = "ecb_cross_check"
  /\ \E resp \in FeedSpace :
       LET ecb_rates == fetch_ecb_rates(resp)
           st == add_check(Cur, "ecb_cross_check", CrossCheckStatus(data.rates, ecb_rates))
           old == report.details_per_currency
           details == [code \in DOMAIN old |->
                         IF code \in CrossChecked(data.rates, ecb_rates)
                         THEN CrossDetail(old[code], data.rates[code], ecb_rates[code])
                         ELSE old[code]]
       IN  /\ a_feed' = <<resp>>
           /\ Commit([st EXCEPT !.report.details_per_currency = details])
  /\ ecb_fetches' = ecb_fetches + 1
  /\ apc' = "scraper_audit"
  /\ UNCHANGED <<disk, scraper_vars, report_file, data, now, bounds_violations, a_exit>>

\* ScraperAuditChecks adding the PASS check when one of the two lists is empty
ScraperAuditChecks_PassWhenEitherEmpty(st, scraper_audit) ==
  IF scraper_audit = <<>> THEN st
  ELSE
    LET failed == scraper_audit[1].fetch_failed
        rejected == scraper_audit[1].bounds_rejected
        st1 == IF failed # <<>> THEN add_check(st, "scraper_failures", "WARNING") ELSE st
        st2 == IF rejected # <<>> THEN add_check(st1, "scraper_bounds_rejected", "WARNING")
               ELSE st1
    IN  IF failed = <<>> \/ rejected = <<>> THEN add_check(st2, "scraper_audit", "PASS")
        ELSE st2

\* the checks added by step 9 for the exchanger_audit metadata (<<>> or <<dict>>)
ScraperAuditChecks(st, scraper_audit) ==
  IF scraper_audit = <<>> THEN st
  ELSE
    LET failed == scraper_audit[1].fetch_failed
        rejected == scraper_audit[1].bounds_rejected
        st1 == IF failed # <<>> THEN add_check(st, "scraper_failures", "WARNING") ELSE st
        st2 == IF rejected # <<>> THEN add_check(st1, "scraper_bounds_rejected", "WARNING")
               ELSE st1
    IN  IF failed = <<>> /\ rejected = <<>> THEN add_check(st2, "scraper_audit", "PASS")
        ELSE st2

\* 9. Scraper audit metadata (if present)
AuditScraperMetadata ==
  /\ apc = "scraper_audit"
  /\ Commit(ScraperAuditChecks(Cur, data.exchanger_audit))
  /\ apc' = "final"
  /\ UNCHANGED <<disk, scraper_vars, report_file, data, now, bounds_violations, a_feed,
                 ecb_fetches, a_exit>>

\* FinalStatus testing the warnings before the critical flag
FinalStatus_WarningFirst(crit, warns) ==
  IF warns > 0 THEN "WARNING" ELSE IF crit THEN "CRITICAL" ELSE "PASS"

FinalStatus(crit, warns) ==
  IF crit THEN "CRITICAL" ELSE IF warns > 0 THEN "WARNING" ELSE "PASS"

\* Final status
AuditFinal ==
  /\ apc = "final"
  /\ report' = [report EXCEPT
                  !.summary = [total_rates |-> Cardinality(DOMAIN data.rates),
                               bounds_violations |-> Cardinality(bounds_violations),
                               warnings |-> warnings,
                               critical |-> critical],
                  !.status = FinalStatus(critical, warnings)]
  /\ apc' = "returned"
  /\ UNCHANGED <<disk, scraper_vars, report_file, data, now, critical, warnings,
                 bounds_violations, a_feed, ecb_fetches, a_exit>>

\* AuditMain exiting with 1 on every status but PASS
AuditMain_FailsOnWarning ==
  /\ apc = "returned"
  /\ report_file' = <<report>>
  /\ IF "total_rates" \notin DOMAIN report.summary
     THEN apc' = "crashed" /\ a_exit' = 1
     ELSE apc' = "exited" /\ a_exit' = IF report.status # "PASS" THEN 1 ELSE 0
  /\ UNCHANGED <<disk, scraper_vars, data, now, report, critical, warnings,
                 bounds_violations, a_feed, ecb_fetches>>

\* main: save the report, print the summary (KeyError when the summary is
\* empty: the traceback exits with 1), exit 1 on CRITICAL and 0 otherwise
AuditMain ==
  /\ apc = "returned"
  /\ report_file' = <<report>>
  /\ IF "total_rates" \notin DOMAIN report.summary
     THEN apc' = "crashed" /\ a_exit' = 1
     ELSE apc' = "exited" /\ a_exit' = IF report.status = "CRITICAL" THEN 1 ELSE 0
  /\ UNCHANGED <<disk, scraper_vars, data, now, report, critical, warnings,
                 bounds_violations, a_feed, ecb_fetches>>

AuditStep ==
  \/ AuditFileExists
  \/ AuditFreshness
  \/ AuditRatesPresent
  \/ AuditMinimumCount
  \/ AuditUsdBase
  \/ AuditRequiredCurrencies
  \/ AuditBoundsValidation
  \/ AuditEcbCrossCheck
  \/ AuditScraperMetadata
  \/ AuditFinal
  \/ AuditMain

\* the audit run before run_audit is called
AuditIdle ==
  /\ report_file = <<>>
  /\ apc = "start"
  /\ data = NoDoc
  /\ report = NewReport
  /\ critical = FALSE
  /\ warnings = 0
  /\ now = 0
  /\ bounds_violations = {}
  /\ a_feed = <<>>
  /\ ecb_fetches = 0
  /\ a_exit = -1

(* ------------------------------------------------------------------ *)
(* The datasets an audit run can find                                  *)
(* ------------------------------------------------------------------ *)

Restrict(f, S) == [c \in S |-> f[c]]

\* 16 rates, all within bounds (U4)
NominalRates ==
  [USD |-> 10000, EUR |-> 9200, GBP |-> 8000, JPY |-> 1000000,
   CNY |-> 72000, CHF |-> 9000, CAD |-> 13500, MAD |-> 100000,
   AUD |-> 15000, HKD |-> 78000, SGD |-> 13500, SEK |-> 105000,
   NOK |-> 105000, NZD |-> 16500, INR |-> 830000, MXN |-> 170000]

\* 16 rates within bounds, without the required MAD
SixteenWithoutMAD ==
  Restrict(NominalRates, DOMAIN NominalRates \ {"MAD"}) @@ [ZAR |-> 180000]

RatesSpace ==
  {EmptyMap, [USD |-> 10000], SixteenWithoutMAD} \cup
  { Restrict([NominalRates EXCEPT !["EUR"] = eur, !["GBP"] = gbp, !["USD"] = usd],
             DOMAIN NominalRates \ drop) :
      eur \in {9200, 8800, 8801, 7200, 8240, 8241, 7760}, gbp \in {8000, 14000, 7760, 8240},
      usd \in {10000, 10001}, drop \in {{}, {"MAD"}, {"MAD", "MXN"}, {"USD"}} }

LastUpdateSpace ==
  { [kind |-> "garbage", t |-> 0], [kind |-> "aware", t |-> 1000],
    [kind |-> "naive", t |-> 700] }

\* an exchanger_audit dict with the given failures and rejections
AuditMeta(failed, rejected) ==
  [total_requested |-> 33, fetched |-> 33 - Len(failed),
   validated |-> 33 - Len(failed) - Len(rejected),
   bounds_rejected |-> rejected, fetch_failed |-> failed,
   cross_check_deviations |-> EmptyMap, cross_check_source |-> "ECB",
   final_count |-> 34 - Len(failed) - Len(rejected)]

AuditMetaSpace ==
  { <<>>,
    <<AuditMeta(<<>>, <<>>)>>,
    <<AuditMeta(<<"IDR", "COP">>, <<>>)>>,
    <<AuditMeta(<<>>, <<[code |-> "KRW", rate |-> 650000000, bounds |-> <<70000, 200000>>]>>)>>,
    <<AuditMeta(<<"IDR">>, <<[code |-> "KRW", rate |-> 650000000, bounds |-> <<70000, 200000>>]>>)>> }

DatasetSpace ==
  { [last_update |-> lu, rates |-> r, exchanger_audit |-> m] :
      lu \in LastUpdateSpace, r \in RatesSpace, m \in AuditMetaSpace }

AuditDisks == {MissingFile, PartialFile} \cup {CompleteFile(doc) : doc \in DatasetSpace}

(* ------------------------------------------------------------------ *)
(* The quote provider                                                  *)
(* ------------------------------------------------------------------ *)

\* One call of yf.download: an empty frame, an exception, or a frame of
\* rows daily sessions whose last Close is (units + tenth/10) * 10^-6, tenth
\* in 0..9.
Empty == [kind |-> "empty", rows |-> 0, units |-> 0, tenth |-> 0]
Raises == [kind |-> "exception", rows |-> 0, units |-> 0, tenth |-> 0]
Close(units, tenth) == [kind |-> "close", rows |-> 2, units |-> units, tenth |-> tenth]
\* a frame with one session only
SingleSession(units, tenth) == [kind |-> "close", rows |-> 1, units |-> units, tenth |-> tenth]
\* a frame whose last Close is missing: float() of it is nan
NaNClose == [kind |-> "nan", rows |-> 2, units |-> 0, tenth |-> 0]

\* float("nan") where a close, a rate or a trend is expected, a value that
\* none of them takes: no comparison with it holds, and arithmetic and
\* round() on it give nan
NaN == -2147483647

Code(i) == EXCHANGER_PAIRS[i].code
Invert(i) == EXCHANGER_PAIRS[i].invert

\* the last registry entry with every provider outcome (USD is entry 1)
LastVaried == NumVaried + 1

\* closes of the varied symbols: non-positive, missing, nominal, one on each
\* side of a bound after rounding to 6 decimals, closes whose rounding to 6
\* or to 4 decimals is a decimal tie, and a close whose stored rate is 0.784,
\* 2 percent below a reference of 0.8
VariedCloses(code) ==
  IF code = "EUR" THEN {Close(0, 0), Close(1087000, 0), Close(2000001, 0), Close(2000003, 0),
                        Close(1086897, 5), Close(1275510, 2), NaNClose,
                        SingleSession(1087000, 0)}
  ELSE IF code = "GBP" THEN {Close(-5000, 0), Close(1250000, 0), Close(769231, 0), Close(769230, 0)}
  ELSE IF code = "JPY" THEN {Close(0, 0), Close(100000000, 0), Close(250000000, 4), Close(250000000, 6),
                             Close(69999999, 5), SingleSession(100000000, 0)}
  ELSE IF code = "CAD" THEN {Close(0, 0), Close(1350000, 0), Close(899999, 5)}
  ELSE {Close(0, 0), Close(1000000, 0)}

\* a close within the bounds of the symbol's currency
NominalClose(i) ==
  IF Invert(i) THEN Close(700000, 0)
  ELSE Close((RATE_BOUNDS[Code(i)][1] + RATE_BOUNDS[Code(i)][2]) * 5000, 0)

\* symbols the provider never has data for (their rates exceed 2^31 in U6)
NoData == {"IDR", "COP"}

\* what one download of entry i can return under scenario sc
ProviderOutcomes(sc, i) ==
  IF i <= LastVaried THEN {Empty, Raises} \cup VariedCloses(Code(i))
  ELSE IF i >= sc.outage \/ Code(i) \in NoData THEN {Empty}
  ELSE {NominalClose(i)}

ScenarioSpace ==
  { [outage |-> o, items |-> 5] : o \in {LastVaried + 1, 12, 17, 35} }
    \cup {[outage |-> 35, items |-> 0]}

(* ------------------------------------------------------------------ *)
(* scraper.py                                                          *)
(* ------------------------------------------------------------------ *)

\* price <= 0, which is False of nan
NonPositive(c) == c.kind # "nan" /\ (c.units < 0 \/ (c.units = 0 /\ c.tenth = 0))

\* round(price, 6) in U6
Round6(c) ==
  IF c.tenth # 5 THEN (IF c.tenth > 5 THEN c.units + 1 ELSE c.units)
  ELSE DblRoundDecimal(DblFromBig(BigMulAdd(BigFromInt(c.units), 10, c.tenth), 7), 6)

\* round(1.0 / price, 6) in U6
Invert6(c) ==
  LET p7 == c.units * 10 + c.tenth
  IN  IF c.units < 20000000
         /\ 2 * LongDiv(10000000 \div p7, 10000000 % p7, p7, 6)[2] # p7
      THEN LET qr == LongDiv(10000000 \div p7, 10000000 % p7, p7, 6)
           IN  IF 2 * qr[2] > p7 THEN qr[1] + 1 ELSE qr[1]
      ELSE DblRoundDecimal(Quotient(1, 0, p7, 7), 6)

\* final_rate never inverting the price
final_rate_NoInversion(c, invert) == IF c.kind = "nan" THEN NaN ELSE Round6(c)

\* final_rate = round((1.0 / price) if invert else price, 6); 1.0 / nan and
\* round(nan, 6) are nan
final_rate(c, invert) ==
  IF c.kind = "nan" THEN NaN ELSE IF invert THEN Invert6(c) ELSE Round6(c)

\* WithinBounds with exclusive comparisons
WithinBounds_Exclusive(code, rate6) ==
  /\ rate6 # NaN
  /\ RATE_BOUNDS[code][1] * 10000 < rate6
  /\ rate6 < RATE_BOUNDS[code][2] * 10000

\* lo <= final_rate <= hi for a 6-decimal rate (U6) and bounds in C2, which
\* is False of nan
WithinBounds(code, rate6) ==
  /\ rate6 # NaN
  /\ RATE_BOUNDS[code][1] * 10000 <= rate6
  /\ rate6 <= RATE_BOUNDS[code][2] * 10000

\* fetch_ecb_reference_rates: the USD-based rates (U6), or {} on any failure
fetch_ecb_reference_rates(resp) ==
  IF ~resp.ok THEN EmptyMap
  ELSE
    LET eur_rates == resp.cubes @@ [EUR |-> 10000]
        eur_usd == Get(eur_rates, "USD", 0)
    IN  IF eur_usd = 0 \/ eur_usd <= 0 THEN EmptyMap
        ELSE [code \in DOMAIN eur_rates \ {"USD"} |-> usd_rate(eur_rates[code], eur_usd)]
               @@ [USD |-> 1000000]

\* the entry after i in the loop over EXCHANGER_PAIRS, skipping USD
NextEntry(i) ==
  IF i + 1 <= Len(EXCHANGER_PAIRS) /\ Code(i + 1) = "USD" THEN i + 2 ELSE i + 1

\* main up to the call of fetch_exchanger_rates, and its first statements
ScraperStart ==
  /\ spc = "main"
  /\ total' = scenario.items
  /\ rates' = [USD |-> 10000]
  /\ audit' = [total_requested |-> Len(EXCHANGER_PAIRS) - 1, fetched |-> 0,
               validated |-> 0, bounds_rejected |-> <<>>, fetch_failed |-> <<>>,
               cross_check_deviations |-> EmptyMap, cross_check_source |-> "ECB"]
  /\ idx' = NextEntry(0)
  /\ attempt' = 1
  /\ delay' = RETRY_DELAY
  /\ price' = <<>>
  /\ events' = <<>>
  /\ spc' = "fetching"
  /\ UNCHANGED <<disk, audit_vars, result, items, scenario, s_feed, critical_log, s_exit>>

\* the entries of events: a call of yf.download with what it gave, a call of time.sleep
Download(given) == [op |-> "download", result |-> given, secs |-> 0]
Sleep(secs) == [op |-> "sleep", result |-> "", secs |-> secs]

\* what a download gave, as the retry loop distinguishes it
Result(out) ==
  IF out.kind # "close" THEN out.kind
  ELSE IF NonPositive(out) THEN "nonpositive" ELSE "positive"

\* time.sleep(delay); delay *= 2
Backoff(st) == [st EXCEPT !.events = Append(@, Sleep(st.delay)), !.delay = st.delay * 2]

\* One iteration of "for attempt in range(1, MAX_RETRIES + 1)" on the locals
\* [attempt, delay, price, events]; done when the loop is left.
RetryIteration(st, out) ==
  LET called == [st EXCEPT !.events = Append(@, Download(Result(out)))]
      last == st.attempt >= MAX_RETRIES
      next(s) == IF last THEN [s EXCEPT !.done = TRUE]
                 ELSE [s EXCEPT !.attempt = @ + 1]
  IN  IF out.kind = "empty"
      THEN IF st.attempt < MAX_RETRIES THEN next(Backoff(called))
           ELSE [called EXCEPT !.done = TRUE]
      ELSE IF out.kind = "exception"
      THEN IF st.attempt < MAX_RETRIES THEN next(Backoff(called)) ELSE next(called)
      ELSE IF NonPositive(out)
      THEN next([called EXCEPT !.price = <<>>])
      ELSE [called EXCEPT !.price = <<out>>, !.done = TRUE]

\* one attempt of the retry loop for the current currency
FetchAttempt ==
  /\ spc = "fetching"
  /\ \E out \in ProviderOutcomes(scenario, idx) :
       LET st == RetryIteration([attempt |-> attempt, delay |-> delay, price |-> price,
                                 events |-> events, done |-> FALSE], out)
       IN  /\ attempt' = st.attempt
           /\ delay' = st.delay
           /\ price' = st.price
           /\ events' = st.events
           /\ spc' = IF st.done THEN "fetched" ELSE "fetching"
  /\ UNCHANGED <<disk, audit_vars, result, items, scenario, total, idx, rates, audit, s_feed,
                 critical_log, s_exit>>

\* rates[code] = round(final_rate, 4) in U4
stored_rate(rate6) == IF rate6 = NaN THEN NaN ELSE Round4(rate6)

\* RecordOutcome counting a rate as fetched only after the bounds check
RecordOutcome_FetchedAfterBounds(rts, aud, i, pr) ==
  IF pr = <<>>
  THEN [rates |-> rts, audit |-> [aud EXCEPT !.fetch_failed = Append(@, Code(i))]]
  ELSE
    LET rate == final_rate(pr[1], Invert(i))
    IN  IF Code(i) \in DOMAIN RATE_BOUNDS /\ ~WithinBounds(Code(i), rate)
        THEN [rates |-> rts,
              audit |-> [aud EXCEPT !.bounds_rejected =
                           Append(@, [code |-> Code(i), rate |-> rate,
                                      bounds |-> RATE_BOUNDS[Code(i)]])]]
        ELSE [rates |-> [c \in DOMAIN rts \cup {Code(i)} |->
                           IF c = Code(i) THEN stored_rate(rate) ELSE rts[c]],
              audit |-> [aud EXCEPT !.fetched = @ + 1, !.validated = @ + 1]]

\* the loop body after the retry loop, on the pair of rates and audit
RecordOutcome(rts, aud, i, pr) ==
  IF pr = <<>>
  THEN [rates |-> rts, audit |-> [aud EXCEPT !.fetch_failed = Append(@, Code(i))]]
  ELSE
    LET rate == final_rate(pr[1], Invert(i))
        fetched == [aud EXCEPT !.fetched = @ + 1]
    IN  IF Code(i) \in DOMAIN RATE_BOUNDS /\ ~WithinBounds(Code(i), rate)
        THEN [rates |-> rts,
              audit |-> [fetched EXCEPT !.bounds_rejected =
                           Append(@, [code |-> Code(i), rate |-> rate,
                                      bounds |-> RATE_BOUNDS[Code(i)]])]]
        ELSE [rates |-> [c \in DOMAIN rts \cup {Code(i)} |->
                           IF c = Code(i) THEN stored_rate(rate) ELSE rts[c]],
              audit |-> [fetched EXCEPT !.validated = @ + 1]]

\* the rest of the loop body, then the next currency or the end of the loop
FetchRecord ==
  /\ spc = "fetched"
  /\ LET r == RecordOutcome(rates, audit, idx, price)
     IN  rates' = r.rates /\ audit' = r.audit
  /\ idx' = NextEntry(idx)
  /\ IF NextEntry(idx) > Len(EXCHANGER_PAIRS)
     THEN /\ spc' = "cross_check"
          /\ UNCHANGED <<attempt, delay, price, events>>
     ELSE /\ spc' = "fetching"
          /\ attempt' = 1
          /\ delay' = RETRY_DELAY
          /\ price' = <<>>
          /\ events' = <<>>
  /\ UNCHANGED <<disk, audit_vars, result, items, scenario, total, s_feed, critical_log, s_exit>>

\* the codes the acquisition-time cross-check compares
Compared(rts, ecb_rates) ==
  {code \in DOMAIN rts \ {"USD"} : Get(ecb_rates, code, 0) > 0}

\* cross_check_deviations flagging above 5% in place of 2%
cross_check_deviations_AboveFive(rts, ecb_rates) ==
  LET flagged == {code \in Compared(rts, ecb_rates) :
                    DeviationExceeds(rts[code], ecb_rates[code], 5)}
  IN  [code \in flagged |->
         [scraped |-> rts[code], ecb |-> Round4(ecb_rates[code]),
          deviation_pct |-> DeviationPct2(rts[code], ecb_rates[code])]]

\* cross_check_deviations: the compared codes deviating by more than 2%
cross_check_deviations(rts, ecb_rates) ==
  LET flagged == {code \in Compared(rts, ecb_rates) :
                    DeviationExceeds(rts[code], ecb_rates[code], FLAG_DEVIATION_PCT)}
  IN  [code \in flagged |->
         [scraped |-> rts[code], ecb |-> Round4(ecb_rates[code]),
          deviation_pct |-> DeviationPct2(rts[code], ecb_rates[code])]]

\* critical_deviations with ">= 15" in place of "> 15"
critical_deviations_AtLeast(rts, ecb_rates) ==
  {code \in Compared(rts, ecb_rates) :
     /\ DeviationExceeds(rts[code], ecb_rates[code], FLAG_DEVIATION_PCT)
     /\ AbsDiff(rts[code], ecb_rates[code]) >=
          LOG_CRITICAL_DEVIATION_PCT * (ecb_rates[code] \div 100)
            + (LOG_CRITICAL_DEVIATION_PCT * (ecb_rates[code] % 100) + 99) \div 100}

\* the codes for which the CRITICAL deviation line is printed
critical_deviations(rts, ecb_rates) ==
  {code \in Compared(rts, ecb_rates) :
     /\ DeviationExceeds(rts[code], ecb_rates[code], FLAG_DEVIATION_PCT)
     /\ DeviationExceeds(rts[code], ecb_rates[code], LOG_CRITICAL_DEVIATION_PCT)}

\* the ECB cross-check of fetch_exchanger_rates
ScraperCrossCheck ==
  /\ spc = "cross_check"
  /\ \E resp \in FeedSpace :
       LET ecb_rates == fetch_ecb_reference_rates(resp)
       IN  /\ s_feed' = <<resp>>
           /\ audit' = [audit EXCEPT !.cross_check_deviations =
                          cross_check_deviations(rates, ecb_rates)]
           /\ critical_log' = critical_deviations(rates, ecb_rates)
  /\ spc' = "cross_checked"
  /\ UNCHANGED <<disk, audit_vars, result, items, scenario, total, idx, attempt, delay, price, events,
                 rates, s_exit>>

\* audit["final_count"] = len(rates) and the return of fetch_exchanger_rates
ScraperReturn ==
  /\ spc = "cross_checked"
  /\ audit' = [final_count |-> Cardinality(DOMAIN rates)] @@ audit
  /\ spc' = "returned"
  /\ UNCHANGED <<disk, audit_vars, result, items, scenario, total, idx, attempt, delay, price, events,
                 rates, s_feed, critical_log, s_exit>>

\* the instants datetime.now() can return in the acquisition run (minutes)
ScraperNows == {1000}

\* main: open(out_path, "w") truncates the file
MainOpen ==
  /\ spc = "returned"
  /\ disk' = PartialFile
  /\ spc' = "writing"
  /\ UNCHANGED <<scraper_vars_but_spc, audit_vars>>

\* main: json.dump writes the document and the file is closed
MainDump ==
  /\ spc = "writing"
  /\ \E t \in ScraperNows :
       disk' = CompleteFile([last_update |-> [kind |-> "aware", t |-> t],
                             rates |-> rates, exchanger_audit |-> <<audit>>])
  /\ spc' = "saved"
  /\ UNCHANGED <<scraper_vars_but_spc, audit_vars>>

\* ExitStatus without the minimum of validated rates
ExitStatus_NoMinimum(tot, aud) == IF tot = 0 THEN 1 ELSE 0

\* the exit status of main after the dataset is saved
ExitStatus(tot, aud) ==
  IF tot = 0 THEN 1 ELSE IF aud.validated < MIN_VALIDATED THEN 1 ELSE 0

MainExit ==
  /\ spc = "saved"
  /\ s_exit' = ExitStatus(total, audit)
  /\ spc' = "exited"
  /\ UNCHANGED <<disk, audit_vars, result, items, scenario, total, idx, attempt, delay, price, events,
                 rates, audit, s_feed, critical_log>>

ScraperStep ==
  \/ ScraperStart
  \/ FetchAttempt
  \/ FetchRecord
  \/ ScraperCrossCheck
  \/ ScraperReturn
  \/ MainOpen
  \/ MainDump
  \/ MainExit

\* the acquisition process before main runs
ScraperIdle ==
  /\ total = 0
  /\ spc = "main"
  /\ idx = 1
  /\ attempt = 1
  /\ delay = RETRY_DELAY
  /\ price = <<>>
  /\ result = <<>>
  /\ items = <<>>
  /\ events = <<>>
  /\ rates = EmptyMap
  /\ audit = EmptyMap
  /\ s_feed = <<>>
  /\ critical_log = {}
  /\ s_exit = -1

(* ------------------------------------------------------------------ *)
(* scraper.py: the ticker sections of main                             *)
(* ------------------------------------------------------------------ *)

\* One call of yf.download by fetch_with_retry: an empty frame, an exception,
\* or a frame of rows daily sessions whose last two closes are latest and
\* prev (U6; prev is not read from a frame of one row).
NoQuotes == [kind |-> "empty", rows |-> 0, latest |-> 0, prev |-> 0]
QuoteError == [kind |-> "exception", rows |-> 0, latest |-> 0, prev |-> 0]
Quotes(n, latest, prev) == [kind |-> "frame", rows |-> n, latest |-> latest, prev |-> prev]

\* what one download of ticker i can return
QuoteOutcomes(i) ==
  {NoQuotes, QuoteError, Quotes(1, 1087000, 0), Quotes(2, 0, 1000000),
   Quotes(2, 1087000, 0), Quotes(2, 1087000, 1000000)}
    \cup (IF i = 1 THEN {Quotes(2, 950000, 1000000), Quotes(2, 920050, 1000000),
                         Quotes(2, 1000050, 1000000), Quotes(2, NaN, 1000000)}
          ELSE {})

\* round(((latest - prev) / prev) * 100, 2) in P2, of two closes in U6
Trend2(latest, prev) ==
  IF latest = NaN \/ prev = NaN THEN NaN
  ELSE IF latest >= prev THEN Pct2(latest - prev, latest, 6, prev)
  ELSE 0 - Pct2(prev - latest, latest, 6, prev)

\* round(latest, 4) in U4
quote_price(latest) == IF latest = NaN THEN NaN ELSE Round4(latest)

\* latest <= 0 or prev <= 0, each False of nan
QuoteNonPositive(out) ==
  (out.latest # NaN /\ out.latest <= 0) \/ (out.prev # NaN /\ out.prev <= 0)

\* what a download gave, as fetch_with_retry distinguishes it
QuoteResult(out) ==
  IF out.kind # "frame" THEN out.kind
  ELSE IF out.rows < 2 THEN "short"
  ELSE IF QuoteNonPositive(out) THEN "nonpositive"
  ELSE IF out.latest = NaN \/ out.prev = NaN THEN "nan"
  ELSE "positive"

\* One iteration of "for attempt in range(1, retries + 1)" of fetch_with_retry
\* on the locals [attempt, delay, events] and the returned value result; done
\* when the function returns.
fetch_with_retry(st, out) ==
  LET called == [st EXCEPT !.events = Append(@, Download(QuoteResult(out)))]
  IN  IF out.kind = "exception"
      THEN LET slept == IF st.attempt < MAX_RETRIES THEN Backoff(called) ELSE called
           IN  IF st.attempt >= MAX_RETRIES THEN [slept EXCEPT !.done = TRUE]
               ELSE [slept EXCEPT !.attempt = @ + 1]
      ELSE IF out.kind = "empty" \/ out.rows < 2
      THEN [called EXCEPT !.done = TRUE]
      ELSE IF QuoteNonPositive(out)
      THEN [called EXCEPT !.done = TRUE]
      ELSE [called EXCEPT !.done = TRUE,
                          !.result = <<[price |-> quote_price(out.latest),
                                        trend |-> Trend2(out.latest, out.prev)]>>]

\* main: the first statements, and the first call of build_section
MainSections ==
  /\ spc = "main"
  /\ total' = 0
  /\ idx' = 1
  /\ items' = <<>>
  /\ attempt' = 1
  /\ delay' = RETRY_DELAY
  /\ events' = <<>>
  /\ result' = <<>>
  /\ spc' = "quote"
  /\ UNCHANGED <<disk, audit_vars, scenario, price, rates, audit, s_feed, critical_log,
                 s_exit>>

\* build_section: one attempt of fetch_with_retry for the current ticker
QuoteAttempt ==
  /\ spc = "quote"
  /\ \E out \in QuoteOutcomes(idx) :
       LET st == fetch_with_retry([attempt |-> attempt, delay |-> delay, events |-> events,
                                   result |-> <<>>, done |-> FALSE], out)
       IN  /\ attempt' = st.attempt
           /\ delay' = st.delay
           /\ events' = st.events
           /\ result' = st.result
           /\ spc' = IF st.done THEN "quoted" ELSE "quote"
  /\ UNCHANGED <<disk, audit_vars, scenario, total, idx, items, price, rates, audit,
                 s_feed, critical_log, s_exit>>

\* the ticker is the last one of its category
LastOfSection(i) ==
  i = Len(TICKERS) \/ TICKERS[i + 1].category # TICKERS[i].category

\* build_section: the rest of the loop body, then the next ticker; at the end
\* of a section main adds its length to total and builds the next section
build_section ==
  /\ spc = "quoted"
  /\ LET appended == IF result = <<>> THEN items
                     ELSE Append(items, [ticker |-> TICKERS[idx].symbol,
                                         price |-> result[1].price,
                                         trend |-> result[1].trend])
     IN  IF LastOfSection(idx)
         THEN total' = total + Len(appended) /\ items' = <<>>
         ELSE total' = total /\ items' = appended
  /\ idx' = idx + 1
  /\ attempt' = 1
  /\ delay' = RETRY_DELAY
  /\ events' = <<>>
  /\ spc' = IF idx = Len(TICKERS) THEN "sections_done" ELSE "quote"
  /\ UNCHANGED <<disk, audit_vars, scenario, result, price, rates, audit, s_feed,
                 critical_log, s_exit>>

SectionsStep ==
  \/ MainSections
  \/ QuoteAttempt
  \/ build_section

(* ------------------------------------------------------------------ *)
(* Specifications                                                      *)
(* ------------------------------------------------------------------ *)

\* An audit run over any dataset; no acquisition run takes place.
InitAudit ==
  /\ disk \in AuditDisks
  /\ scenario \in {[outage |-> 35, items |-> 5]}
  /\ ScraperIdle
  /\ AuditIdle

NextAudit == AuditStep

SpecAudit == InitAudit /\ [][NextAudit]_vars

\* An acquisition run; no audit run takes place.
InitScraper ==
  /\ disk = MissingFile
  /\ scenario \in ScenarioSpace
  /\ ScraperIdle
  /\ AuditIdle

NextScraper == ScraperStep

SpecScraper == InitScraper /\ [][NextScraper]_vars

\* The ticker sections of an acquisition run, attempt by attempt, up to the
\* call of fetch_exchanger_rates.  SpecScraper takes their outcome, the item
\* total, from the provider scenario.
InitSections ==
  /\ disk = MissingFile
  /\ scenario \in {[outage |-> 35, items |-> 5]}
  /\ ScraperIdle
  /\ AuditIdle

NextSections == SectionsStep

SpecSections == InitSections /\ [][NextSections]_vars

\* An acquisition run and an audit run of the dataset it writes.  The audit
\* run reads the file once, in its first step, and the acquisition run writes
\* it in MainOpen and MainDump only; every interleaving of the two runs is
\* therefore equivalent to one in which the audit run starts before main,
\* between MainOpen and MainDump, or after MainExit, and then runs to its end.
PipelineScenarios == {[outage |-> 17, items |-> 5]}

Init ==
  /\ disk = MissingFile
  /\ scenario \in PipelineScenarios
  /\ ScraperIdle
  /\ AuditIdle

AuditQuiet == apc \in {"start", "exited", "crashed"}

ReadPoint == spc \in {"main", "writing", "exited"}

Next ==
  \/ AuditQuiet /\ ScraperStep
  \/ (apc # "start" \/ ReadPoint) /\ AuditStep

Spec == Init /\ [][Next]_vars

(* ------------------------------------------------------------------ *)
(* Properties of the audit run                                         *)
(* ------------------------------------------------------------------ *)

Range(seq) == {seq[i] : i \in DOMAIN seq}

\* some recorded check has the status
HasCheck(status) == \E i \in DOMAIN report.checks : report.checks[i].status = status

\* run_audit has returned (main may have run since)
AuditReturned == apc \in {"returned", "exited", "crashed"} /\ report.checks # <<>>

\* C1: a run that reaches the final aggregation (dataset present, rate set
\* non-empty) reports CRITICAL if some recorded check is CRITICAL, else
\* WARNING if some recorded check is WARNING, else PASS.
C1_Aggregation ==
  (AuditReturned /\ DOMAIN data.rates # {}) =>
    report.status = IF HasCheck("CRITICAL") THEN "CRITICAL"
                    ELSE IF HasCheck("WARNING") THEN "WARNING"
                    ELSE "PASS"

\* a CRITICAL check among WARNING and PASS checks, and the status CRITICAL
C1_Witness ==
  /\ AuditReturned
  /\ DOMAIN data.rates # {}
  /\ HasCheck("CRITICAL") /\ HasCheck("WARNING") /\ HasCheck("PASS")
  /\ report.status = "CRITICAL"

\* C2: with the dataset missing, the report is CRITICAL with the single check
\* file_exists/CRITICAL, and the reference feed is never fetched.
C2_MissingDataset ==
  disk.state = "missing" =>
    /\ ecb_fetches = 0
    /\ a_feed = <<>>
    /\ apc # "start" =>
         /\ report.status = "CRITICAL"
         /\ report.checks = <<[check |-> "file_exists", status |-> "CRITICAL"]>>

C2_Witness ==
  /\ disk.state = "missing"
  /\ apc = "returned"
  /\ Len(report.checks) = 1

\* the checks after rates_present
LaterChecks == {"minimum_count", "usd_base", "required_currencies", "bounds_validation",
                "ecb_cross_check", "scraper_failures", "scraper_bounds_rejected",
                "scraper_audit"}

\* C3: with the dataset present and its rate mapping empty or absent, the run
\* ends right after rates_present/CRITICAL with status CRITICAL, and no later
\* check is ever recorded.
C3_EmptyRates ==
  (disk.state = "complete" /\ DOMAIN disk.doc.rates = {}) =>
    /\ \A i \in DOMAIN report.checks : report.checks[i].check \notin LaterChecks
    /\ ecb_fetches = 0
    /\ apc \notin {"start", "freshness", "rates_present"} =>
         /\ apc \in {"returned", "exited", "crashed"}
         /\ report.status = "CRITICAL"
         /\ report.checks[Len(report.checks)] =
              [check |-> "rates_present", status |-> "CRITICAL"]

C3_Witness ==
  /\ disk.state = "complete"
  /\ DOMAIN disk.doc.rates = {}
  /\ apc = "returned"
  /\ Len(report.checks) = 3

FixedOrder == <<"file_exists", "freshness", "rates_present", "minimum_count", "usd_base",
                "required_currencies", "bounds_validation", "ecb_cross_check">>

\* C4: with the dataset present and its rate set non-empty, the eight checks
\* are recorded once each, in the fixed order, whatever their outcomes.
C4_AllChecksInOrder ==
  (disk.state = "complete" /\ DOMAIN disk.doc.rates # {}) =>
    /\ \A i \in DOMAIN report.checks :
         IF i <= Len(FixedOrder) THEN report.checks[i].check = FixedOrder[i]
         ELSE report.checks[i].check \notin Range(FixedOrder)
    /\ apc \in {"returned", "exited", "crashed"} => Len(report.checks) >= Len(FixedOrder)

\* freshness and usd_base both CRITICAL, and the later checks recorded
C4_Witness ==
  /\ disk.state = "complete"
  /\ apc = "returned"
  /\ Len(report.checks) >= Len(FixedOrder)
  /\ report.checks[2].status = "CRITICAL"
  /\ report.checks[5].status = "CRITICAL"

\* the response gives no usable reference set: unreachable, or the USD entry
\* missing or non-positive
FeedDown(resp) ==
  \/ ~resp.ok
  \/ "USD" \notin DOMAIN resp.cubes
  \/ resp.cubes["USD"] <= 0

\* C5: with the reference feed unreachable, or its base-currency entry missing
\* or non-positive, ecb_cross_check is WARNING, and the overall status is
\* WARNING when no other check is CRITICAL.
C5_FeedUnavailable ==
  (a_feed # <<>> /\ FeedDown(a_feed[1])) =>
    /\ report.checks[8] = [check |-> "ecb_cross_check", status |-> "WARNING"]
    /\ (apc \in {"returned", "exited"} /\ ~HasCheck("CRITICAL")) => report.status = "WARNING"

\* the feed answered without a USD entry or with a non-positive one, every
\* other check is PASS, and the status is WARNING
C5_Witness ==
  /\ a_feed # <<>>
  /\ a_feed[1].ok
  /\ FeedDown(a_feed[1])
  /\ apc = "returned"
  /\ \A i \in DOMAIN report.checks : i # 8 => report.checks[i].status = "PASS"
  /\ report.status = "WARNING"

\* the converted reference set of the audit run
AuditReference == fetch_ecb_rates(a_feed[1])

\* the non-base currencies in both sets for which deviationPct is defined
InBoth == {code \in (DOMAIN data.rates \cap DOMAIN AuditReference) \ {"USD"} :
             AuditReference[code] > 0}

\* deviationPct = |scraped - reference| / reference * 100 > pct, of the
\* stored rate (U4) and the reference rate (U6) as decimal numbers: d > x is
\* d > floor(x) for an integer d
DeviationOver(code, pct) ==
  Abs(data.rates[code] * 100 - AuditReference[code]) >
    pct * (AuditReference[code] \div 100) + (pct * (AuditReference[code] % 100)) \div 100

\* deviationPct >= pct, of the same decimal numbers: d >= x is d >= ceil(x)
DeviationAtLeast(code, pct) ==
  Abs(data.rates[code] * 100 - AuditReference[code]) >=
    pct * (AuditReference[code] \div 100) + (pct * (AuditReference[code] % 100) + 99) \div 100

\* C6: with a reachable reference feed, ecb_cross_check is CRITICAL if some
\* currency in both sets deviates by more than 10 percent, else WARNING if
\* some deviates by more than 3 percent, else PASS; the deviation is that of
\* the stored and the reference rate as decimal numbers.
C6_CrossCheckLadder ==
  (a_feed # <<>> /\ ~FeedDown(a_feed[1])) =>
    report.checks[8].status =
      IF \E code \in InBoth : DeviationOver(code, 10) THEN "CRITICAL"
      ELSE IF \E code \in InBoth : DeviationOver(code, 3) THEN "WARNING"
      ELSE "PASS"

\* EUR 0.72 against a reference of 0.80 deviates by exactly 10 percent; the
\* program computes 10.000000000000009 and reports CRITICAL
EurTenPercentCritical ==
  /\ a_feed # <<>>
  /\ ~FeedDown(a_feed[1])
  /\ "EUR" \in InBoth
  /\ data.rates["EUR"] = 7200
  /\ AuditReference["EUR"] = 800000
  /\ \A code \in InBoth \ {"EUR"} : ~DeviationAtLeast(code, 3)
  /\ report.checks[8].status = "CRITICAL"

(* ------------------------------------------------------------------ *)
(* Properties of the acquisition run                                   *)
(* ------------------------------------------------------------------ *)

\* the converted reference set of the acquisition run
ScraperReference == fetch_ecb_reference_rates(s_feed[1])

\* the acquisition run compared a EUR rate of 0.92 with a reference of 0.80
EurScenarioAcquired ==
  /\ s_feed # <<>>
  /\ "EUR" \in DOMAIN rates
  /\ rates["EUR"] = 9200
  /\ Get(ScraperReference, "EUR", 0) = 800000

\* the audit run compared a EUR rate of 0.92 with a reference of 0.80
EurScenarioAudited ==
  /\ a_feed # <<>>
  /\ "EUR" \in DOMAIN data.rates
  /\ data.rates["EUR"] = 9200
  /\ Get(AuditReference, "EUR", 0) = 800000

\* C7 as stated: for EUR scraped 0.92 against reference 0.80 the acquisition
\* run logs the critical-severity deviation for EUR and the audit run's
\* cross-check outcome is CRITICAL.
C7_AsStated ==
  /\ EurScenarioAcquired => "EUR" \in critical_log
  /\ EurScenarioAudited =>
       report.checks[8] = [check |-> "ecb_cross_check", status |-> "CRITICAL"]

\* C7 amended: for EUR scraped 0.92 against reference 0.80 the deviation is
\* exactly 15.0 percent, which is not more than 15: the acquisition run
\* records it in cross_check_deviations and does not log the critical-
\* severity line; the audit run's cross-check outcome is CRITICAL.
C7_Amended ==
  /\ EurScenarioAcquired =>
       /\ "EUR" \notin critical_log
       /\ "EUR" \in DOMAIN audit.cross_check_deviations
       /\ audit.cross_check_deviations["EUR"] =
            [scraped |-> 9200, ecb |-> 8000, deviation_pct |-> 1500]
  /\ EurScenarioAudited =>
       report.checks[8] = [check |-> "ecb_cross_check", status |-> "CRITICAL"]

\* both runs met the scenario: the audit run read the dataset the
\* acquisition run wrote
C7_Witness ==
  /\ EurScenarioAcquired
  /\ EurScenarioAudited
  /\ spc = "exited"
  /\ apc = "returned"
  /\ data.rates = rates

\* the 6-decimal rate of the currency just fetched
Normalized == final_rate(price[1], Invert(idx))

\* outside the inclusive bounds of scraper.py's table (C2 against U6)
OutsideBounds(code, rate6) ==
  \/ rate6 < RATE_BOUNDS[code][1] * 10000
  \/ rate6 > RATE_BOUNDS[code][2] * 10000

\* C8: the bounds are checked on the normalized rate before it is admitted: a
\* rate outside its inclusive bounds leaves the rates mapping unchanged and
\* adds one bounds_rejected entry (code, rate, bounds); a rate within them is
\* admitted and adds none; a rejected code is never in the rates mapping and
\* has one entry only.
C8_BoundsBeforeAdmission ==
  /\ [][(spc = "fetched" /\ price # <<>>) =>
          IF OutsideBounds(Code(idx), Normalized)
          THEN /\ rates' = rates
               /\ audit'.bounds_rejected =
                    Append(audit.bounds_rejected,
                           [code |-> Code(idx), rate |-> Normalized,
                            bounds |-> RATE_BOUNDS[Code(idx)]])
          ELSE /\ Code(idx) \in DOMAIN rates'
               /\ rates'[Code(idx)] = Round4(Normalized)
               /\ audit'.bounds_rejected = audit.bounds_rejected]_vars
  /\ [](spc # "main" =>
          \A i \in DOMAIN audit.bounds_rejected :
            /\ audit.bounds_rejected[i].code \notin DOMAIN rates
            /\ \A j \in DOMAIN audit.bounds_rejected :
                 audit.bounds_rejected[j].code = audit.bounds_rejected[i].code => j = i)

\* the run has returned with EUR rejected just below its low bound and GBP
\* admitted on its high bound
C8_Witness ==
  /\ spc = "returned"
  /\ audit.bounds_rejected # <<>>
  /\ audit.bounds_rejected[1] = [code |-> "EUR", rate |-> 499999, bounds |-> <<50, 150>>]
  /\ "EUR" \notin DOMAIN rates
  /\ "GBP" \in DOMAIN rates
  /\ rates["GBP"] = 13000

\* the number of downloads among the events of the current symbol
Downloads(ev) == Cardinality({i \in DOMAIN ev : ev[i].op = "download"})

\* no download of the current symbol gave a positive price
NoPositive(ev) == \A i \in DOMAIN ev : ev[i].result # "positive"

\* C9: a symbol is downloaded at most 3 times; when no attempt gave a positive
\* price (a NaN close is not a positive price) the currency is appended to
\* fetch_failed, stays out of the rates mapping, and the run goes on to the
\* next currency or to the cross-check; the run returns a rate set and an
\* audit record.
C9_RetryExhaustion ==
  /\ [](spc # "main" =>
          /\ Downloads(events) <= 3
          /\ \A i \in DOMAIN audit.fetch_failed : audit.fetch_failed[i] \notin DOMAIN rates
          /\ (spc = "fetched" /\ NoPositive(events)) => price = <<>>
          /\ spc \in {"fetching", "fetched", "cross_check", "cross_checked"} => s_exit = -1
          /\ spc = "returned" =>
               ("USD" \in DOMAIN rates /\ audit.final_count = Cardinality(DOMAIN rates)))
  /\ [][(spc = "fetched" /\ NoPositive(events)) =>
          /\ audit'.fetch_failed = Append(audit.fetch_failed, Code(idx))
          /\ rates' = rates
          /\ spc' \in {"fetching", "cross_check"}]_vars

\* EUR was given up and the run went on: GBP is exhausted after 3 downloads
GbpExhaustedAfterEur ==
  /\ spc = "fetched"
  /\ Code(idx) = "GBP"
  /\ audit.fetch_failed = <<"EUR">>
  /\ Downloads(events) = 3
  /\ NoPositive(events)

\* the first download of EUR gave a NaN close: the loop ended after one
\* download with the NaN as its price
EurNaNTakenAsPrice ==
  /\ spc = "fetched"
  /\ Code(idx) = "EUR"
  /\ Downloads(events) = 1
  /\ NoPositive(events)
  /\ price = <<NaNClose>>

\* the sleeps among the events of the current symbol, in order
RECURSIVE Sleeps(_)
Sleeps(ev) ==
  IF ev = <<>> THEN <<>>
  ELSE IF ev[1].op = "sleep" THEN <<ev[1].secs>> \o Sleeps(Tail(ev))
  ELSE Sleeps(Tail(ev))

\* C10: every retry of a symbol is preceded by a blocking wait, whatever the
\* failure that caused it, and the waits of one symbol are 2s, then 4s.
C10_WaitBeforeEveryRetry ==
  spc \in {"fetching", "fetched"} =>
    /\ \A i \in DOMAIN events :
         (i > 1 /\ events[i].op = "download") => events[i - 1].op = "sleep"
    /\ Sleeps(events) \in {<<>>, <<2>>, <<2, 4>>}

\* C11: a response with fewer than 2 daily sessions is a fetch failure: when
\* the price in hand was read from such a response, the loop body admits no
\* rate for the currency and appends it to fetch_failed.
C11_FewerThanTwoSessions ==
  [][(spc = "fetched" /\ price # <<>> /\ price[1].rows < 2) =>
       /\ rates' = rates
       /\ audit'.fetch_failed = Append(audit.fetch_failed, Code(idx))]_vars

\* the stored rate r (U4) is within 10^-4 of the value whose floor in U4 is q
Within4(r, q) == q <= r /\ r <= q + 1

\* floor(10^4 / close) and floor(10^4 * close) of a positive close
FloorReciprocal4(c) == LongDiv(10000000 \div (c.units * 10 + c.tenth),
                               10000000 % (c.units * 10 + c.tenth),
                               c.units * 10 + c.tenth, 4)[1]
FloorClose4(c) == c.units \div 100

\* C12: a currency admitted to the rate set is stored as 1/latestClose when
\* its registry entry has invert = true and as latestClose when it has
\* invert = false, to within 10^-4 (the rounding to 6, then 4 decimals).
C12_Normalization ==
  [][(spc = "fetched" /\ Code(idx) \in DOMAIN rates' \ DOMAIN rates) =>
       /\ price # <<>>
       /\ IF EXCHANGER_PAIRS[idx].invert
          THEN Within4(rates'[Code(idx)], FloorReciprocal4(price[1]))
          ELSE Within4(rates'[Code(idx)], FloorClose4(price[1]))]_vars

\* EUR (inverted, close 1.087) is stored as 0.92 and JPY (direct, close 100)
\* as 100.0
C12_Witness ==
  /\ spc = "returned"
  /\ {"EUR", "JPY"} \subseteq DOMAIN rates
  /\ rates["EUR"] = 9200
  /\ rates["JPY"] = 1000000

(* ------------------------------------------------------------------ *)
(* Properties of the two runs together and of their exits              *)
(* ------------------------------------------------------------------ *)

\* C13: an audit run interleaved with an acquisition run never reads a
\* partially written dataset: its read finds no file yet, or a complete
\* document, which it loads.
C13_NoPartialRead ==
  [][(apc = "start" /\ apc' # "start") =>
       \/ disk.state = "missing"
       \/ disk.state = "complete" /\ data' = disk.doc]_vars

\* C14: an audit process that produced a report, also one that stopped at
\* check 1 or check 3, exits with 1 if the report status is CRITICAL and
\* with 0 if it is PASS or WARNING.
C14_ExitCode ==
  /\ (a_exit # -1 /\ report.checks # <<>>) =>
       /\ report_file = <<report>>
       /\ a_exit = IF report.status = "CRITICAL" THEN 1 ELSE 0
  /\ (apc \in {"exited", "crashed"}) => a_exit # -1

\* a run that stopped at check 3 has exited with 1
C14_Witness ==
  /\ a_exit = 1
  /\ Len(report.checks) = 3
  /\ report.checks[3] = [check |-> "rates_present", status |-> "CRITICAL"]
  /\ report.status = "CRITICAL"

\* C15: an acquisition run that validated fewer than 10 rates exits with a
\* failing status, and the dataset it gathered, however partial, is on disk
\* before any exit.
C15_InsufficientYield ==
  /\ (spc = "exited" /\ audit.validated < 10) => s_exit = 1
  /\ s_exit # -1 =>
       /\ disk.state = "complete"
       /\ disk.doc.rates = rates
       /\ disk.doc.exchanger_audit = <<audit>>

\* 1 to 9 rates validated, items fetched, failing exit, dataset on disk
C15_Witness ==
  /\ spc = "exited"
  /\ total > 0
  /\ audit.validated > 0 /\ audit.validated < 10
  /\ s_exit = 1
  /\ disk.state = "complete"
  /\ Cardinality(DOMAIN disk.doc.rates) = audit.validated + 1

\* the number of recorded checks with the status
CountChecks(status) ==
  Cardinality({i \in DOMAIN report.checks : report.checks[i].status = status})

\* C16: every report run_audit returns, also after stopping at check 1 or
\* check 3, has a summary with the total rate count, the bounds violations,
\* the warnings and the critical flag; warnings counts the WARNING checks
\* and critical is true exactly when some check is CRITICAL.
C16_SummaryAlways ==
  AuditReturned =>
    /\ DOMAIN report.summary = {"total_rates", "bounds_violations", "warnings", "critical"}
    /\ report.summary.warnings = CountChecks("WARNING")
    /\ report.summary.critical = HasCheck("CRITICAL")

\* the checks step 9 added, and the metadata it read
Step9Done == apc \in {"final", "returned", "exited"} /\ Len(report.checks) >= 8
Step9Checks == SubSeq(report.checks, 9, Len(report.checks))
HasMetadata == data.exchanger_audit # <<>>
HasFailures == data.exchanger_audit[1].fetch_failed # <<>>
HasRejections == data.exchanger_audit[1].bounds_rejected # <<>>

\* C17 as stated: step 9 adds a check only if the dataset carries the
\* acquisition metadata, and then exactly one: WARNING if the metadata records
\* a fetch failure or a bounds rejection, PASS otherwise.
C17_AsStated ==
  Step9Done =>
    IF ~HasMetadata THEN Step9Checks = <<>>
    ELSE /\ Len(Step9Checks) = 1
         /\ Step9Checks[1].status =
              IF HasFailures \/ HasRejections THEN "WARNING" ELSE "PASS"

\* C17 amended: step 9 adds checks only if the dataset carries the metadata;
\* it then adds one WARNING check for the fetch failures if there are any and
\* one WARNING check for the bounds rejections if there are any (two checks
\* when both are recorded), and a single PASS check when there are neither.
C17_Amended ==
  Step9Done =>
    IF ~HasMetadata THEN Step9Checks = <<>>
    ELSE /\ Len(Step9Checks) = IF HasFailures /\ HasRejections THEN 2 ELSE 1
         /\ \A i \in DOMAIN Step9Checks :
              Step9Checks[i].status =
                IF HasFailures \/ HasRejections THEN "WARNING" ELSE "PASS"
         /\ HasFailures <=>
              [check |-> "scraper_failures", status |-> "WARNING"] \in Range(Step9Checks)
         /\ HasRejections <=>
              [check |-> "scraper_bounds_rejected", status |-> "WARNING"] \in Range(Step9Checks)

\* the metadata records a failure and a rejection, and step 9 added two checks
C17_Witness ==
  /\ Step9Done
  /\ HasMetadata
  /\ HasFailures /\ HasRejections
  /\ Len(Step9Checks) = 2

\* the age of the dataset in minutes, for a timestamp that parses
AgeMinutes == now - data.last_update.t

\* every check but freshness is PASS
OtherwiseNominal ==
  \A i \in DOMAIN report.checks : i # 2 => report.checks[i].status = "PASS"

\* C18: freshness is CRITICAL when the timestamp cannot be parsed, WARNING
\* when the age is more than 6 hours, PASS otherwise; a dataset 8 hours old
\* and otherwise nominal gives freshness WARNING and overall status WARNING.
C18_Freshness ==
  /\ Len(report.checks) >= 2 =>
       report.checks[2] =
         [check |-> "freshness",
          status |-> IF data.last_update.kind = "garbage" THEN "CRITICAL"
                     ELSE IF AgeMinutes > 6 * 60 THEN "WARNING"
                     ELSE "PASS"]
  /\ (/\ apc \in {"returned", "exited"}
      /\ Len(report.checks) >= 8
      /\ data.last_update.kind # "garbage"
      /\ AgeMinutes = 8 * 60
      /\ OtherwiseNominal) =>
       /\ report.checks[2].status = "WARNING"
       /\ report.status = "WARNING"

\* a dataset 8 hours old, every other check PASS, overall WARNING
C18_Witness ==
  /\ apc = "returned"
  /\ Len(report.checks) = 9
  /\ data.last_update.kind = "aware"
  /\ AgeMinutes = 8 * 60
  /\ OtherwiseNominal
  /\ report.checks[2].status = "WARNING"
  /\ report.status = "WARNING"

\* every rate with an entry in the audit's bounds table lies within it
AllWithinBounds ==
  \A code \in (DOMAIN data.rates \cap DOMAIN AUDIT_RATE_BOUNDS) \ {"USD"} :
    /\ AUDIT_RATE_BOUNDS[code][1] * 100 <= data.rates[code]
    /\ data.rates[code] <= AUDIT_RATE_BOUNDS[code][2] * 100

\* 16 rates with USD = 1.0 and EUR = 0.92, all within bounds, a timestamp
\* 1 hour old, and a EUR reference within 1 percent of 0.92
Scenario19 ==
  /\ apc \in {"returned", "exited"}
  /\ Cardinality(DOMAIN data.rates) = 16
  /\ {"USD", "EUR"} \subseteq DOMAIN data.rates
  /\ data.rates["USD"] = 10000
  /\ data.rates["EUR"] = 9200
  /\ AllWithinBounds
  /\ data.last_update.kind # "garbage"
  /\ AgeMinutes = 60
  /\ a_feed # <<>>
  /\ ~FeedDown(a_feed[1])
  /\ 100 * Abs(920000 - AuditReference["EUR"]) <= AuditReference["EUR"]

\* C19 as stated: any such dataset yields overall status PASS.
C19_AsStated == Scenario19 => report.status = "PASS"

\* C19 amended: such a dataset yields PASS when it also holds the seven
\* required currencies, every currency in both sets deviates from its
\* reference by strictly less than 3 percent, and its acquisition metadata,
\* if any, records no fetch failure and no bounds rejection.
C19_Amended ==
  (/\ Scenario19
   /\ REQUIRED_CURRENCIES \subseteq DOMAIN data.rates
   /\ \A code \in InBoth : ~DeviationAtLeast(code, 3)
   /\ HasMetadata => (~HasFailures /\ ~HasRejections)) =>
    report.status = "PASS"

\* the nominal dataset with clean metadata, audited to PASS
C19_Witness ==
  /\ Scenario19
  /\ REQUIRED_CURRENCIES \subseteq DOMAIN data.rates
  /\ HasMetadata
  /\ report.status = "PASS"
  /\ Len(report.checks) = 9

\* the compared currencies deviating from the reference by more than 2
\* percent, for rates (U4) and a converted reference set (U6)
OverTwoPercent(rts, ref) ==
  {code \in (DOMAIN rts \cap DOMAIN ref) \ {"USD"} :
     /\ ref[code] > 0
     /\ Abs(rts[code] * 100 - ref[code]) > (2 * ref[code]) \div 100}

\* C20: the acquisition-time cross-check is advisory: whatever the feed
\* answers, it leaves the rates mapping and every field of the audit record
\* but cross_check_deviations unchanged and sets no exit status; it adds to
\* cross_check_deviations the currencies deviating by more than 2 percent
\* (as decimal numbers) and nothing else; and the exit status depends on the
\* item total and the validated count only.
C20_CrossCheckAdvisory ==
  /\ [][spc = "cross_check" =>
          /\ rates' = rates
          /\ DOMAIN audit' = DOMAIN audit
          /\ \A k \in DOMAIN audit \ {"cross_check_deviations"} : audit'[k] = audit[k]
          /\ DOMAIN audit'.cross_check_deviations =
               OverTwoPercent(rates, fetch_ecb_reference_rates(s_feed'[1]))
          /\ s_exit' = s_exit
          /\ total' = total]_vars
  /\ [](spc = "exited" =>
          s_exit = IF total = 0 \/ audit.validated < 10 THEN 1 ELSE 0)

\* EUR 0.784 against a reference of 0.80 deviates by exactly 2 percent; the
\* program computes 2.0000000000000018 and records an entry
EurTwoPercentFlagged ==
  /\ spc = "cross_checked"
  /\ "EUR" \in DOMAIN rates
  /\ rates["EUR"] = 7840
  /\ Get(ScraperReference, "EUR", 0) = 800000
  /\ "EUR" \in DOMAIN audit.cross_check_deviations

\* a run that flagged deviations, one of them above 15 percent, validated
\* at least 10 rates and exited with status 0
FlaggedRunExitsZero ==
  /\ spc = "exited"
  /\ critical_log # {}
  /\ Cardinality(DOMAIN audit.cross_check_deviations) >= 2
  /\ audit.validated >= 10
  /\ s_exit = 0

(* ------------------------------------------------------------------ *)
(* Properties of fetch_with_retry and of the acquisition record        *)
(* ------------------------------------------------------------------ *)

\* the number of downloads among the first i events
DownloadsUpTo(ev, i) == Cardinality({j \in 1..i : ev[j].op = "download"})

\* C21: fetch_with_retry retries on every kind of transient failure: a
\* download that gave no positive price, with fewer than 3 attempts made, is
\* followed by a wait and another download, and None is returned only after
\* 3 attempts.
C21_RetryEveryTransientFailure ==
  spc = "quoted" =>
    /\ result = <<>> => Downloads(events) = 3
    /\ \A i \in DOMAIN events :
         (/\ events[i].op = "download"
          /\ events[i].result \notin {"positive", "nan"}
          /\ DownloadsUpTo(events, i) < 3) =>
           /\ i + 2 <= Len(events)
           /\ events[i + 1].op = "sleep"
           /\ events[i + 2].op = "download"

\* the requested non-base currencies, and where the run put them
Requested == {EXCHANGER_PAIRS[i].code : i \in DOMAIN EXCHANGER_PAIRS} \ {"USD"}
Admitted == DOMAIN rates \ {"USD"}
Rejected == {audit.bounds_rejected[i].code : i \in DOMAIN audit.bounds_rejected}
Failed == Range(audit.fetch_failed)

\* fetch_exchanger_rates has returned
AcquisitionDone == spc \in {"returned", "writing", "saved", "exited"}

\* C22: after an acquisition run every requested non-base currency is in
\* exactly one of the rates mapping, bounds_rejected and fetch_failed, once;
\* total_requested = fetched + |fetch_failed|, fetched = validated +
\* |bounds_rejected| and final_count = validated + 1.
C22_AuditRecordPartition ==
  AcquisitionDone =>
    /\ Admitted \cup Rejected \cup Failed = Requested
    /\ Admitted \cap Rejected = {}
    /\ Admitted \cap Failed = {}
    /\ Rejected \cap Failed = {}
    /\ Cardinality(Rejected) = Len(audit.bounds_rejected)
    /\ Cardinality(Failed) = Len(audit.fetch_failed)
    /\ audit.total_requested = audit.fetched + Len(audit.fetch_failed)
    /\ audit.fetched = audit.validated + Len(audit.bounds_rejected)
    /\ audit.final_count = audit.validated + 1

\* a finished run with admitted, rejected and failed currencies
C22_Witness ==
  /\ spc = "exited"
  /\ Len(audit.bounds_rejected) >= 2
  /\ Len(audit.fetch_failed) >= 3
  /\ audit.validated >= 10

\* C23: a dataset produced by an acquisition run passes usd_base and
\* bounds_validation: the rates mapping holds USD = 1.0 from the start of the
\* run, and an audit of the persisted dataset finds the base value right and
\* classifies no stored (4-decimal) rate FAIL.
C23_DatasetPassesBaseAndBounds ==
  /\ spc # "main" => ("USD" \in DOMAIN rates /\ rates["USD"] = 10000)
  /\ Len(report.checks) >= 5 =>
       report.checks[5] = [check |-> "usd_base", status |-> "PASS"]
  /\ Len(report.checks) >= 7 =>
       /\ report.checks[7] = [check |-> "bounds_validation", status |-> "PASS"]
       /\ \A code \in DOMAIN report.details_per_currency :
            report.details_per_currency[code].bounds_status # "FAIL"

\* the audit passed a dataset whose EUR and GBP rates were rounded onto
\* their bounds (0.5 and 1.3)
C23_Witness ==
  /\ spc = "exited"
  /\ Len(report.checks) >= 7
  /\ data.rates = rates
  /\ {"EUR", "GBP"} \subseteq DOMAIN data.rates
  /\ data.rates["EUR"] = 5000
  /\ data.rates["GBP"] = 13000
  /\ report.details_per_currency["EUR"].bounds_status = "PASS"

\* the audit run compared the rates the acquisition run stored with the
\* reference set the acquisition run had
SameRatesAndReference ==
  /\ AcquisitionDone
  /\ Len(report.checks) >= 8
  /\ data.rates = rates
  /\ a_feed = s_feed

\* the currencies the audit-time cross-check counts as deviating
AuditDeviating ==
  cross_errors(data.rates, AuditReference) \cup cross_warnings(data.rates, AuditReference)

\* C24: on the same stored rates and the same reference set, every currency
\* the audit-time cross-check counts as a WARNING or CRITICAL deviation has
\* an entry in the acquisition-time cross_check_deviations, and a currency
\* that triggered the acquisition-time critical observation makes the
\* audit-time cross-check CRITICAL.
C24_LaddersConsistent ==
  SameRatesAndReference =>
    /\ AuditDeviating \subseteq DOMAIN audit.cross_check_deviations
    /\ critical_log \subseteq cross_errors(data.rates, AuditReference)
    /\ critical_log # {} =>
         report.checks[8] = [check |-> "ecb_cross_check", status |-> "CRITICAL"]

\* GBP deviates by 4.8 percent (audit WARNING, flagged at acquisition) and
\* JPY by 150 percent (critical at acquisition, CRITICAL at audit)
C24_Witness ==
  /\ SameRatesAndReference
  /\ "GBP" \in cross_warnings(data.rates, AuditReference)
  /\ "GBP" \in DOMAIN audit.cross_check_deviations
  /\ "JPY" \in critical_log
  /\ report.checks[8].status = "CRITICAL"

\* C25: the dataset persisted by an acquisition run that exited with
\* success passes the audit's minimum_count check.
C25_SuccessMeetsMinimumCount ==
  (/\ s_exit = 0
   /\ data.rates = rates
   /\ Len(report.checks) >= 4) =>
    report.checks[4] = [check |-> "minimum_count", status |-> "PASS"]

====
